---- MODULE Spec2Model ----
(***************************************************************************)
(* Agentic Infra RCA: the watcher regime (the three watcher threads, the   *)
(* cooldown cache, its file and rca_lock: infra_rca/watch_agent.py) and    *)
(* the scanner regime (analyze_cluster over its worker pool:               *)
(* infra_rca/agent.py).                                                    *)
(*                                                                         *)
(* Spec     the three watcher threads, every interleaving of their steps.  *)
(* SpecSeq  one watcher thread alone (a single caller of should_skip_rca). *)
(* SpecScan one run of analyze_cluster.                                    *)
(* SpecAnalyze one call of analyze_resource, run_rca included              *)
(*          (infra_rca/utils/dspy_helper.py), on the texts of the backend. *)
(* SpecPatch the patch cleanup of run_rca applied to its own output.       *)
(* SpecLoop the `while True` loops of the three watcher threads.           *)
(* SpecBoth one run of analyze_cluster while a watcher thread runs.        *)
(***************************************************************************)
EXTENDS Integers, Sequences, FiniteSets, TLC

VARIABLES
    clock,          \* time.time(), in seconds
    last_rca_time,  \* the in-memory cooldown map: key -> timestamp
    cache_file,     \* rca_seen_cache.json on disk
    rca_lock,       \* the watcher holding rca_lock, or Free
    pc,             \* where each watcher thread is
    args,           \* (kind, name, ns) of the trigger_rca call in progress
    now,            \* the local `now` of should_skip_rca
    ntriggers,      \* trigger_rca calls made so far
    calls,          \* history: per key, what each finished should_skip_rca returned
    last_pass,      \* history: per key, the `now` of the last call that returned False
    starts,         \* history: per (kind, name, ns), the times analyze_resource started
    failed,         \* history: keys whose gated analysis raised, was absent or was not saved
    loaded,         \* history: the map load_cache returned at start
    scan_pc,        \* where analyze_cluster is
    cluster,        \* what the cluster lists, and the arguments of the scan
    resources,      \* the enumerated (kind, name, ns)
    tasks,          \* one record per executor task
    completion,     \* history: task indices in the order they completed
    ncalls,         \* history: analyze_resource calls per task
    final,          \* what analyze_cluster returned (its parts; <<>> is "")
    report_file,    \* cluster_rca_report.md (its parts), or NoFile
    nwrites,        \* history: writes of cluster_rca_report.md
    a_pc,           \* where analyze_resource (and run_rca inside it) is
    resource,       \* (kind, name, namespace) of the analyze_resource call
    sources,        \* what the API and the CLI give for the resource
    data,           \* the bundle collect_resource_data returned
    signals,        \* what extract_signals returned
    prompt,         \* the prompt of run_rca
    backend_calls,  \* history: the calls of _generate, in order
    text,           \* the text run_rca parses
    fields,         \* the dict `fields` of run_rca
    result,         \* what analyze_resource returned
    p_pc,           \* how often the patch cleanup was applied
    patch_lines,    \* the list patch_lines the cleanup starts from
    cleaned,        \* history: the outputs of the cleanup
    loop_pc,        \* where each watcher is in its loop
    pause,          \* the seconds of each watcher's last time.sleep
    raised,         \* the exception each watcher's last step raised
    items_left      \* the items each watcher's stream or list still holds

watch_vars == <<clock, last_rca_time, cache_file, rca_lock, pc, args, now,
                ntriggers, calls, last_pass, starts, failed, loaded>>
scan_vars == <<scan_pc, cluster, resources, tasks, completion, ncalls, final,
               report_file, nwrites>>
rca_vars == <<a_pc, resource, sources, data, signals, prompt, backend_calls, text, fields, result>>
patch_vars == <<p_pc, patch_lines, cleaned>>
loop_vars == <<loop_pc, pause, raised, items_left>>
vars == <<watch_vars, scan_vars, rca_vars, patch_vars, loop_vars>>

\* What the steps of one part leave alone.
other_than_watch == <<scan_vars, rca_vars, patch_vars, loop_vars>>
other_than_scan == <<watch_vars, rca_vars, patch_vars, loop_vars>>
other_than_rca == <<watch_vars, scan_vars, patch_vars, loop_vars>>
other_than_patch == <<watch_vars, scan_vars, rca_vars, loop_vars>>
other_than_loop == <<watch_vars, scan_vars, rca_vars, patch_vars>>

(***************************************************************************)
(* Bounds of the model.                                                    *)
(***************************************************************************)
TickStep == 150
MaxTime == 300
MaxTriggers == 3
MaxNodes == 1
MaxPatchLines == 3
MaxItems == 2

(***************************************************************************)
(* watch_agent.py: constants and the cooldown cache.                       *)
(***************************************************************************)
RCA_COOLDOWN == 300

Watchers == {"events", "metrics", "pods"}
Free == "free"
None == "<None>"

\* x or d: Python's `or` on a value that is a string or None.
OrElse(x, d) == IF x = None \/ x = "" THEN d ELSE x

\* What each watcher passes to trigger_rca for the objects it sees: the pod
\* p1 of namespace ns1 and the node n1 (an event's involved_object of a node
\* has no namespace).
TriggerArgs(w) ==
    CASE w = "events" ->
           { <<o.kind, o.name, OrElse(o.namespace, "default")>> :
               o \in { [kind |-> "Pod", name |-> "p1", namespace |-> "ns1"],
                       [kind |-> "Node", name |-> "n1", namespace |-> None] } }
      [] w = "metrics" -> { <<"Node", "n1", "">> }
      [] w = "pods" -> { <<"Pod", "p1", "ns1">> }

AllArgs == UNION { TriggerArgs(w) : w \in Watchers }

\* key = f"{kind}:{name}:{ns}"
Key(r) == r[1] \o ":" \o r[2] \o ":" \o r[3]

Keys == { Key(r) : r \in AllArgs }

EmptyMap == [k \in {} |-> 0]

Put(m, k, v) == [x \in DOMAIN m \cup {k} |-> IF x = k THEN v ELSE m[x]]

\* The file: absent, zero bytes (just truncated), a JSON object, or text that
\* is no JSON (a partial write, or one write over a longer one).
FileAbsent == [st |-> "absent", data |-> EmptyMap]
FileEmpty == [st |-> "empty", data |-> EmptyMap]
FileGarbled == [st |-> "garbled", data |-> EmptyMap]
FileJson(m) == [st |-> "json", data |-> m]

\* load_cache: the JSON object of the file, {} on any exception.
load_cache(f) == IF f.st = "json" THEN f.data ELSE EmptyMap

\* The condition of should_skip_rca's `if`.
CooldownActiveSliding(key, t, cache) == key \in DOMAIN cache /\ t - cache[key] <= RCA_COOLDOWN
CooldownActive(key, t, cache) == key \in DOMAIN cache /\ t - cache[key] < RCA_COOLDOWN

\* The file after json.dump and the close of the `with`: the text is written
\* from offset 0. A text cut short by an exception is no JSON (or nothing was
\* written). Over a file still empty the whole text is the file. When another
\* thread wrote the file after this thread truncated it, bytes of the other
\* text past the end of this one stay: the text of the same map is the same
\* text, with fewer entries the other text is shorter, and both are
\* overwritten whole; otherwise either can happen.
Written(f, m, whole) ==
    IF ~whole THEN {f, FileGarbled}
    ELSE IF f.st \in {"empty", "absent"} THEN {FileJson(m)}
    ELSE IF f.st = "json" /\ (f.data = m \/ Cardinality(DOMAIN f.data) < Cardinality(DOMAIN m))
         THEN {FileJson(m)}
    ELSE {FileJson(m), FileGarbled}

\* No call of should_skip_rca has returned False yet.
NoTime == 0 - 1

NoArgs == <<"", "", "">>
AnalysisOutcomes == {"result", "absent", "raise"}

\* The thread leaves trigger_rca and is back in its watch loop.
Return(w) ==
    /\ pc' = [pc EXCEPT ![w] = "idle"]
    /\ args' = [args EXCEPT ![w] = NoArgs]
    /\ now' = [now EXCEPT ![w] = 0]

\* should_skip_rca returned ret.
Returned(w, ret) ==
    /\ calls' = [calls EXCEPT ![Key(args[w])] = Append(@, ret)]
    /\ last_pass' = IF ret THEN last_pass
                    ELSE [last_pass EXCEPT ![Key(args[w])] = now[w]]

\* Time passes.
Tick ==
    /\ UNCHANGED other_than_watch
    /\ clock + TickStep <= MaxTime
    /\ clock' = clock + TickStep
    /\ UNCHANGED <<last_rca_time, cache_file, rca_lock, pc, args, now,
                   ntriggers, calls, last_pass, starts, failed, loaded>>

\* A watcher sees a trigger condition and calls trigger_rca, which calls
\* should_skip_rca: key and now are computed.
Detect(w, r) ==
    /\ UNCHANGED other_than_watch
    /\ pc[w] = "idle"
    /\ ntriggers < MaxTriggers
    /\ r \in TriggerArgs(w)
    /\ args' = [args EXCEPT ![w] = r]
    /\ now' = [now EXCEPT ![w] = clock]
    /\ pc' = [pc EXCEPT ![w] = "check"]
    /\ ntriggers' = ntriggers + 1
    /\ UNCHANGED <<clock, last_rca_time, cache_file, rca_lock, calls, last_pass, starts,
                   failed, loaded>>

\* A buggy variant: the skipped call refreshes the timestamp.
CheckRefreshing(w) ==
    /\ UNCHANGED other_than_watch
    /\ pc[w] = "check"
    /\ IF CooldownActive(Key(args[w]), now[w], last_rca_time)
       THEN /\ Returned(w, TRUE)
            /\ Return(w)
            /\ last_rca_time' = Put(last_rca_time, Key(args[w]), now[w])
       ELSE /\ pc' = [pc EXCEPT ![w] = "mark"]
            /\ UNCHANGED <<args, now, calls, last_pass, last_rca_time>>
    /\ UNCHANGED <<clock, cache_file, rca_lock, ntriggers, starts, failed, loaded>>

\* The `if` of should_skip_rca: return True (and trigger_rca returns), or go on.
Check(w) ==
    /\ UNCHANGED other_than_watch
    /\ pc[w] = "check"
    /\ IF CooldownActive(Key(args[w]), now[w], last_rca_time)
       THEN /\ Returned(w, TRUE)
            /\ Return(w)
       ELSE /\ pc' = [pc EXCEPT ![w] = "mark"]
            /\ UNCHANGED <<args, now, calls, last_pass>>
    /\ UNCHANGED <<clock, last_rca_time, cache_file, rca_lock, ntriggers, starts,
                   failed, loaded>>

\* last_rca_time[key] = now
Mark(w) ==
    /\ UNCHANGED other_than_watch
    /\ pc[w] = "mark"
    /\ last_rca_time' = Put(last_rca_time, Key(args[w]), now[w])
    /\ pc' = [pc EXCEPT ![w] = "open"]
    /\ UNCHANGED <<clock, cache_file, rca_lock, args, now, ntriggers, calls, last_pass,
                   starts, failed, loaded>>

\* save_cache: open(CACHE_FILE, "w") truncates the file, or raises; the
\* exception is caught and should_skip_rca returns False.
Open(w, ok) ==
    /\ UNCHANGED other_than_watch
    /\ pc[w] = "open"
    /\ IF ok
       THEN /\ cache_file' = FileEmpty
            /\ pc' = [pc EXCEPT ![w] = "write"]
            /\ UNCHANGED <<calls, last_pass>>
       ELSE /\ Returned(w, FALSE)
            /\ pc' = [pc EXCEPT ![w] = "lock"]
            /\ UNCHANGED cache_file
    /\ UNCHANGED <<clock, last_rca_time, rca_lock, args, now, ntriggers, starts,
                   failed, loaded>>

\* save_cache: json.dump(last_rca_time, f), whole or cut short by an exception
\* that is caught, and the close of the file; should_skip_rca returns False.
Write(w, ok) ==
    /\ UNCHANGED other_than_watch
    /\ pc[w] = "write"
    /\ cache_file' \in Written(cache_file, last_rca_time, ok)
    /\ Returned(w, FALSE)
    /\ pc' = [pc EXCEPT ![w] = "lock"]
    /\ UNCHANGED <<clock, last_rca_time, rca_lock, args, now, ntriggers, starts, failed,
                   loaded>>

\* A buggy variant: the analysis starts without waiting for the lock.
AcquireUnguarded(w) ==
    /\ UNCHANGED other_than_watch
    /\ pc[w] = "lock"
    /\ rca_lock' = w
    /\ starts' = [starts EXCEPT ![args[w]] = Append(@, clock)]
    /\ pc' = [pc EXCEPT ![w] = "analyze"]
    /\ UNCHANGED <<clock, last_rca_time, cache_file, args, now, ntriggers, calls, last_pass,
                   failed, loaded>>

\* trigger_rca: `with rca_lock:` is entered and agent.analyze_resource starts.
Acquire(w) ==
    /\ UNCHANGED other_than_watch
    /\ pc[w] = "lock"
    /\ rca_lock = Free
    /\ rca_lock' = w
    /\ starts' = [starts EXCEPT ![args[w]] = Append(@, clock)]
    /\ pc' = [pc EXCEPT ![w] = "analyze"]
    /\ UNCHANGED <<clock, last_rca_time, cache_file, args, now, ntriggers, calls, last_pass,
                   failed, loaded>>

\* A buggy variant: a failed analysis gives the cooldown slot back.
AnalyzeReleasingSlot(w, outcome) ==
    /\ UNCHANGED other_than_watch
    /\ pc[w] = "analyze"
    /\ rca_lock' = Free
    /\ IF outcome = "result"
       THEN /\ pc' = [pc EXCEPT ![w] = "report"]
            /\ UNCHANGED <<args, now, failed, last_rca_time>>
       ELSE /\ failed' = failed \cup {Key(args[w])}
            /\ last_rca_time' = [k \in DOMAIN last_rca_time \ {Key(args[w])} |->
                                    last_rca_time[k]]
            /\ Return(w)
    /\ UNCHANGED <<clock, cache_file, ntriggers, calls, last_pass, starts, loaded>>

\* A variant: an exception of analyze_resource leaves the lock held.
AnalyzeKeepingLock(w, outcome) ==
    /\ UNCHANGED other_than_watch
    /\ pc[w] = "analyze"
    /\ rca_lock' = IF outcome = "raise" THEN rca_lock ELSE Free
    /\ IF outcome = "result"
       THEN /\ pc' = [pc EXCEPT ![w] = "report"]
            /\ UNCHANGED <<args, now, failed>>
       ELSE /\ failed' = failed \cup {Key(args[w])}
            /\ Return(w)
    /\ UNCHANGED <<clock, last_rca_time, cache_file, ntriggers, calls, last_pass, starts, loaded>>

\* trigger_rca: analyze_resource returns a result, returns None or raises; the
\* `with` releases the lock; on None trigger_rca returns, on an exception its
\* `except` logs and it returns.
Analyze(w, outcome) ==
    /\ UNCHANGED other_than_watch
    /\ pc[w] = "analyze"
    /\ rca_lock' = Free
    /\ IF outcome = "result"
       THEN /\ pc' = [pc EXCEPT ![w] = "report"]
            /\ UNCHANGED <<args, now, failed>>
       ELSE /\ failed' = failed \cup {Key(args[w])}
            /\ Return(w)
    /\ UNCHANGED <<clock, last_rca_time, cache_file, ntriggers, calls, last_pass, starts, loaded>>

\* trigger_rca: save_rca_report writes the report, or fails, logs and returns
\* None; trigger_rca returns either way.
Report(w, saved) ==
    /\ UNCHANGED other_than_watch
    /\ pc[w] = "report"
    /\ failed' = IF saved THEN failed ELSE failed \cup {Key(args[w])}
    /\ Return(w)
    /\ UNCHANGED <<clock, last_rca_time, cache_file, rca_lock, ntriggers, calls, last_pass, starts,
                   loaded>>

\* The file the process finds when it starts: none, or the file a previous
\* run left.
InitFiles == {FileAbsent, FileJson(Key(<<"Pod", "p1", "ns1">>) :> 0)}

\* The module-level code of watch_agent.py, up to the start of the threads.
InitWatch ==
    /\ clock = 0
    /\ cache_file \in InitFiles
    /\ last_rca_time = load_cache(cache_file)
    /\ loaded = load_cache(cache_file)
    /\ rca_lock = Free
    /\ pc = [w \in Watchers |-> "idle"]
    /\ args = [w \in Watchers |-> NoArgs]
    /\ now = [w \in Watchers |-> 0]
    /\ ntriggers = 0
    /\ calls = [k \in Keys |-> <<>>]
    /\ last_pass = [k \in Keys |-> NoTime]
    /\ starts = [r \in AllArgs |-> <<>>]
    /\ failed = {}

(***************************************************************************)
(* Text. A Python str is a TLA+ string; the operators below are the str    *)
(* methods and the regular expressions the code applies. A TLA+ string     *)
(* cannot hold a backquote: the texts write ' for it, so a Markdown fence  *)
(* is ''' here.                                                            *)
(***************************************************************************)
Char(s, i) == SubSeq(s, i, i)

UpperCase == "ABCDEFGHIJKLMNOPQRSTUVWXYZ"
LowerCase == "abcdefghijklmnopqrstuvwxyz"

CharIndex(c, alphabet) ==
    IF \E i \in 1..Len(alphabet) : Char(alphabet, i) = c
    THEN CHOOSE i \in 1..Len(alphabet) : Char(alphabet, i) = c
    ELSE 0

LowerChar(c) ==
    IF CharIndex(c, UpperCase) = 0 THEN c ELSE Char(LowerCase, CharIndex(c, UpperCase))

UpperChar(c) ==
    IF CharIndex(c, LowerCase) = 0 THEN c ELSE Char(UpperCase, CharIndex(c, LowerCase))

\* The least element of a non-empty set of positions.
First(S) == CHOOSE i \in S : \A j \in S : i <= j

\* str.lower(), character by character (computed by halves).
RECURSIVE ToLower(_)
ToLower(s) ==
    IF Len(s) <= 1 THEN LowerChar(s)
    ELSE ToLower(SubSeq(s, 1, Len(s) \div 2)) \o ToLower(SubSeq(s, Len(s) \div 2 + 1, Len(s)))

\* str.capitalize()
Capitalize(s) ==
    IF s = "" THEN "" ELSE UpperChar(Char(s, 1)) \o ToLower(SubSeq(s, 2, Len(s)))

\* \s of a regular expression, and what str.strip() removes.
IsSpace(c) == c \in {" ", "\n", "\t"}

\* str.strip()
Strip(s) ==
    LET solid == { i \in 1..Len(s) : ~IsSpace(Char(s, i)) } IN
    IF solid = {} THEN ""
    ELSE SubSeq(s, First(solid), CHOOSE i \in solid : \A j \in solid : j <= i)

\* str.startswith(p), and p matching at position i of s.
MatchAt(s, p, i) == i + Len(p) - 1 <= Len(s) /\ SubSeq(s, i, i + Len(p) - 1) = p
StartsWith(s, p) == MatchAt(s, p, 1)

\* The first position >= i where p occurs in s, 0 when there is none.
FindFrom(s, p, i) ==
    LET at == { j \in i..(Len(s) - Len(p) + 1) : MatchAt(s, p, j) } IN
    IF at = {} THEN 0 ELSE First(at)

\* p in s
Contains(s, p) == FindFrom(s, p, 1) # 0

\* str.splitlines()
RECURSIVE SplitLines(_)
SplitLines(s) ==
    IF s = "" THEN <<>>
    ELSE LET n == FindFrom(s, "\n", 1) IN
         IF n = 0 THEN <<s>>
         ELSE <<SubSeq(s, 1, n - 1)>> \o SplitLines(SubSeq(s, n + 1, Len(s)))

\* sep.join(parts)
RECURSIVE Join(_, _)
Join(parts, sep) ==
    IF parts = <<>> THEN ""
    ELSE IF Len(parts) = 1 THEN parts[1]
    ELSE parts[1] \o sep \o Join(Tail(parts), sep)

\* line.split(":", 1)[1] of a line that holds a colon.
AfterColon(line) == SubSeq(line, FindFrom(line, ":", 1) + 1, Len(line))

\* The position after the \s* that starts at position i.
SkipSpace(s, i) ==
    First({ j \in i..(Len(s) + 1) : j > Len(s) \/ ~IsSpace(Char(s, j)) })

\* The first position >= i where one of the texts of ps occurs in s, Len(s) + 1
\* when there is none: where a lazy (.*?) followed by (?:p1|p2|$) stops.
FirstOf(s, ps, i) ==
    First({ j \in i..(Len(s) + 1) : j > Len(s) \/ \E p \in ps : MatchAt(s, p, j) })

\* \w of a regular expression.
WordChars == "ABCDEFGHIJKLMNOPQRSTUVWXYZabcdefghijklmnopqrstuvwxyz0123456789_"
IsWordChar(c) == CharIndex(c, WordChars) # 0

\* re.search(r"\bw\b", s)
RECURSIVE HasWordFrom(_, _, _)
HasWordFrom(s, w, i) ==
    LET p == FindFrom(s, w, i) IN
    IF p = 0 THEN FALSE
    ELSE \/ /\ (p = 1 \/ ~IsWordChar(Char(s, p - 1)))
            /\ (p + Len(w) > Len(s) \/ ~IsWordChar(Char(s, p + Len(w))))
         \/ HasWordFrom(s, w, p + 1)

\* The order of sorted() on str: by code point, a proper prefix first.
CodePoints == "ABCDEFGHIJKLMNOPQRSTUVWXYZ_abcdefghijklmnopqrstuvwxyz"
RECURSIVE StrLess(_, _)
StrLess(a, b) ==
    IF b = "" THEN FALSE
    ELSE IF a = "" THEN TRUE
    ELSE IF Char(a, 1) = Char(b, 1) THEN StrLess(SubSeq(a, 2, Len(a)), SubSeq(b, 2, Len(b)))
    ELSE CharIndex(Char(a, 1), CodePoints) < CharIndex(Char(b, 1), CodePoints)

\* sorted(set_of_str)
RECURSIVE Sorted(_)
Sorted(S) ==
    IF S = {} THEN <<>>
    ELSE LET m == CHOOSE x \in S : \A y \in S \ {x} : StrLess(x, y)
         IN <<m>> \o Sorted(S \ {m})

(***************************************************************************)
(* agent.py: extract_signals.                                              *)
(***************************************************************************)
\* The dict `patterns`, in its order.
patterns ==
    << <<"crashloopbackoff", "CrashLoopBackOff">>,
       <<"back-off restarting", "CrashLoopBackOff">>,
       <<"imagepullbackoff", "ImagePullBackOff">>,
       <<"failed to pull image", "ImagePullBackOff">>,
       <<"errimagepull", "ImagePullBackOff">>,
       <<"oomkilled", "OOMKilled">>,
       <<"memorypressure", "NodeMemoryPressure">>,
       <<"diskpressure", "NodeDiskPressure">>,
       <<"failedscheduling", "FailedScheduling">>,
       <<"unschedulable", "FailedScheduling">>,
       <<"evicted", "Evicted">>,
       <<"node not ready", "NodeNotReady">>,
       <<"dns", "DNSIssue">>,
       <<"readinessprobe failed", "ProbeFailure">>,
       <<"livenessprobe failed", "ProbeFailure">>,
       <<"no such host", "DNSIssue">>,
       <<"progressdeadlineexceeded", "FailedRollout">>,
       <<"unavailable", "UnavailableReplicas">>,
       <<"connection refused", "ServiceUnavailable">>,
       <<"timeout", "TimeoutError">>,
       <<"pod has unbound immediate persistentvolumeclaims", "PVCUnbound">> >>

GenericFailureWords == {"error", "fail", "exception", "critical"}

\* data.values(), in the order collect_resource_data builds the dict.
Values(bundle) == <<bundle.describe, bundle.events, bundle.logs, bundle.metrics>>

\* A variant: GeneralError is added whenever a generic word is present.
SignalSetAdding(bundle) ==
    LET txt == ToLower(Join(Values(bundle), " "))
        sigs == { patterns[i][2] : i \in { j \in DOMAIN patterns : Contains(txt, patterns[j][1]) } }
    IN IF \E tok \in GenericFailureWords : Contains(txt, tok)
       THEN sigs \cup {"GeneralError"}
       ELSE sigs

\* The set `signals` at the return of extract_signals.
SignalSet(bundle) ==
    LET txt == ToLower(Join(Values(bundle), " "))
        sigs == { patterns[i][2] : i \in { j \in DOMAIN patterns : Contains(txt, patterns[j][1]) } }
    IN IF sigs = {} /\ \E tok \in GenericFailureWords : Contains(txt, tok)
       THEN {"GeneralError"}
       ELSE sigs

\* extract_signals: ", ".join(sorted(signals)) if signals else "None"
extract_signals(bundle) ==
    IF SignalSet(bundle) = {} THEN "None" ELSE Join(Sorted(SignalSet(bundle)), ", ")

(***************************************************************************)
(* utils/dspy_helper.py: run_rca.                                          *)
(***************************************************************************)
Fence == "'''"
ErrorMarker == "[Gemini error"

\* `fields` and the locals of the parsing loop, before the first line.
ParseStart ==
    [ root_cause |-> "", reasoning |-> "", recommendations |-> <<>>, category |-> "",
      patch_lines |-> <<>>, capture_patch |-> FALSE, capture_recs |-> FALSE,
      reasoning_lines |-> <<>> ]

\* The branches on `cat` of the category header.
MapCategory(cat) ==
    IF Contains(cat, "network") THEN "Network Issue"
    ELSE IF Contains(cat, "image") THEN "Image Issue"
    ELSE IF Contains(cat, "resource") THEN "Resource Pressure"
    ELSE IF Contains(cat, "application") THEN "Application Failure"
    ELSE IF Contains(cat, "probe") THEN "Health Probe Failure"
    ELSE cat

\* One turn of `for raw_line in text.splitlines()`.
ParseLine(st, raw_line) ==
    LET line == Strip(raw_line)
        low == ToLower(line)
    IN
    IF line = "" THEN st
    ELSE IF StartsWith(low, "root cause:") THEN
        [st EXCEPT !.root_cause = Strip(AfterColon(line)),
                   !.capture_patch = FALSE, !.capture_recs = FALSE]
    ELSE IF StartsWith(low, "rca category:") \/ StartsWith(low, "category:") THEN
        [st EXCEPT !.category = MapCategory(Capitalize(Strip(AfterColon(line))))]
    ELSE IF StartsWith(low, "reasoning:") THEN
        [st EXCEPT !.reasoning = Strip(AfterColon(line)),
                   !.reasoning_lines = Append(@, Strip(AfterColon(line))),
                   !.capture_patch = FALSE, !.capture_recs = FALSE]
    ELSE IF StartsWith(low, "recommendations:") THEN
        [st EXCEPT !.capture_recs = TRUE, !.capture_patch = FALSE]
    ELSE IF StartsWith(low, "patch:") \/ StartsWith(low, "suggested manifest patch:") THEN
        [st EXCEPT !.capture_patch = TRUE, !.capture_recs = FALSE]
    ELSE IF st.capture_recs /\ StartsWith(line, "- ") THEN
        LET rec == Strip(SubSeq(line, 3, Len(line))) IN
        IF rec # "" /\ ~StartsWith(ToLower(rec), "name:")
        THEN [st EXCEPT !.recommendations = Append(@, rec)]
        ELSE st
    ELSE IF st.capture_patch THEN
        [st EXCEPT !.patch_lines = Append(@, line)]
    ELSE
        [st EXCEPT !.reasoning_lines = Append(@, line)]

RECURSIVE ParseLines(_, _)
ParseLines(st, lines) ==
    IF lines = <<>> THEN st ELSE ParseLines(ParseLine(st, Head(lines)), Tail(lines))

\* re.search(label \s* : \s* (.*?) (?:stops|$), text, IGNORECASE | DOTALL) for
\* a label of the words `words`: the group of the leftmost match, or the
\* record of no match. With stops = {"\n"} it is the search without DOTALL.
NoMatch == [found |-> FALSE, group |-> ""]

\* Position after `words` separated by \s* and followed by \s* : \s*, matched
\* at position p of the lower-cased text; 0 when they do not match there.
RECURSIVE LabelAt(_, _, _)
LabelAt(low, words, p) ==
    IF words = <<>> THEN
        IF p <= Len(low) /\ Char(low, p) = ":" THEN SkipSpace(low, p + 1) ELSE 0
    ELSE IF MatchAt(low, Head(words), p)
         THEN LabelAt(low, Tail(words), SkipSpace(low, p + Len(Head(words))))
         ELSE 0

SearchLabel(txt, words, stops) ==
    LET low == ToLower(txt)
        at == { p \in 1..Len(txt) : LabelAt(low, words, p) # 0 }
        g == LabelAt(low, words, First(at))
    IN IF at = {} THEN NoMatch
       ELSE [found |-> TRUE, group |-> SubSeq(txt, g, FirstOf(low, stops, g) - 1)]

\* re.findall(r"-\s+([^\n]+)", text) and re.findall(r"-\s+(.*)", text): the
\* groups that hold a character that is no space (the code drops the others).
RECURSIVE Bullets(_, _)
Bullets(txt, i) ==
    LET p == FindFrom(txt, "-", i) IN
    IF p = 0 THEN <<>>
    ELSE IF p < Len(txt) /\ IsSpace(Char(txt, p + 1)) THEN
        LET g == SkipSpace(txt, p + 1)
            e == FirstOf(txt, {"\n"}, g)
        IN IF g > Len(txt) THEN <<>>
           ELSE <<Strip(SubSeq(txt, g, e - 1))>> \o Bullets(txt, e)
    ELSE Bullets(txt, p + 1)

\* fence_pattern.findall(text)
RECURSIVE Fenced(_, _)
Fenced(txt, i) ==
    LET p == FindFrom(txt, Fence, i) IN
    IF p = 0 THEN <<>>
    ELSE LET a == p + Len(Fence)
             b == IF a + 3 <= Len(txt) /\ ToLower(SubSeq(txt, a, a + 3)) = "yaml" THEN a + 4 ELSE a
             g == SkipSpace(txt, b)
             c == FindFrom(txt, Fence, g)
         IN IF c = 0 THEN <<>>
            ELSE <<SubSeq(txt, g, c - 1)>> \o Fenced(txt, c + Len(Fence))

ManifestWords == {"spec", "containers", "image", "metadata", "apiVersion"}

\* The fenced blocks appended to patch_lines.
RECURSIVE ManifestBlocks(_)
ManifestBlocks(blocks) ==
    IF blocks = <<>> THEN <<>>
    ELSE (IF \E w \in ManifestWords : HasWordFrom(Head(blocks), w, 1)
          THEN <<Strip(Head(blocks))>> ELSE <<>>) \o ManifestBlocks(Tail(blocks))

\* [p for p in patch_lines if p.strip()]
RECURSIVE NonBlank(_)
NonBlank(parts) ==
    IF parts = <<>> THEN <<>>
    ELSE (IF Strip(Head(parts)) # "" THEN <<Head(parts)>> ELSE <<>>) \o NonBlank(Tail(parts))

\* The position after the run of backquotes that starts at position i.
RunEnd(s, i) ==
    First({ j \in i..(Len(s) + 1) : j > Len(s) \/ Char(s, j) # Char(Fence, 1) })

\* re.sub of every run of three or more backquotes followed by `tail`, by "".
RECURSIVE RemoveFences(_, _)
RemoveFences(s, tail) ==
    LET p == FindFrom(s, Fence, 1)
        e == RunEnd(s, p)
    IN IF p = 0 THEN s
       ELSE IF MatchAt(s, tail, e)
       THEN SubSeq(s, 1, p - 1) \o RemoveFences(SubSeq(s, e + Len(tail), Len(s)), tail)
       ELSE SubSeq(s, 1, e - 1) \o RemoveFences(SubSeq(s, e, Len(s)), tail)

\* The loop over patch_yaml.splitlines(): a line whose stripped text was seen
\* is dropped.
RECURSIVE Dedup(_, _)
Dedup(lines, seen) ==
    IF lines = <<>> THEN <<>>
    ELSE IF Strip(Head(lines)) \in seen THEN Dedup(Tail(lines), seen)
    ELSE <<Head(lines)>> \o Dedup(Tail(lines), seen \cup {Strip(Head(lines))})

\* re.findall(r"(spec:.*?)(?=\n\S|$)", patch_yaml, flags=re.DOTALL)
BlockEnd(s, i) ==
    First({ j \in i..(Len(s) + 1) :
              j > Len(s) \/ (Char(s, j) = "\n" /\ j < Len(s) /\ ~IsSpace(Char(s, j + 1))) })

RECURSIVE YamlBlocks(_, _)
YamlBlocks(s, i) ==
    LET p == FindFrom(s, "spec:", i) IN
    IF p = 0 THEN <<>>
    ELSE LET e == BlockEnd(s, p + 5) IN
         <<SubSeq(s, p, e - 1)>> \o YamlBlocks(s, e)

\* max(yaml_blocks, key=len): the first of the longest.
Longest(blocks) ==
    blocks[CHOOSE i \in DOMAIN blocks :
             /\ \A j \in DOMAIN blocks : Len(blocks[j]) <= Len(blocks[i])
             /\ \A j \in 1..(i - 1) : Len(blocks[j]) < Len(blocks[i])]

NoPatch == "# none"

\* The patch cleanup: from the join of patch_lines to fields["patch_yaml"].
CleanPatch(parts) ==
    LET joined == Strip(Join(NonBlank(parts), "\n\n"))
        bare == RemoveFences(RemoveFences(joined, "yaml"), "")
        clean == Strip(Join(Dedup(SplitLines(bare), {}), "\n"))
        blocks == YamlBlocks(clean, 1)
        kept == IF Len(blocks) > 1 THEN Strip(Longest(blocks)) ELSE clean
    IN IF kept = "" \/ ToLower(kept) \in {"# none", "none", ""} THEN NoPatch ELSE kept

\* The category heuristics over root_cause + " " + reasoning.
ContainsAny(s, ks) == \E k \in ks : Contains(s, k)
GuessCategory(root_cause, reasoning) ==
    LET combined_text == ToLower(root_cause \o " " \o reasoning) IN
    IF ContainsAny(combined_text, {"imagepull", "imagepullbackoff", "errimagepull",
                                   "image not found", "failed to pull"})
        THEN "Image Issue"
    ELSE IF ContainsAny(combined_text, {"probe", "readiness", "liveness"})
        THEN "Health Probe Failure"
    ELSE IF ContainsAny(combined_text, {"memory", "oom", "pressure", "oomkilled", "out of memory"})
        THEN "Resource Pressure"
    ELSE IF ContainsAny(combined_text, {"dns", "connection", "timeout"})
        THEN "Network Issue"
    ELSE "General Anomaly"

\* `fields` after steps 3 to 7 of run_rca on the backend text.
ParseFields(txt) ==
    LET st == ParseLines(ParseStart, SplitLines(txt))
        rc == SearchLabel(txt, <<"root", "cause">>, {"reasoning:", "recommendations:", "patch:"})
        root_cause == IF st.root_cause # "" THEN st.root_cause
                      ELSE IF rc.found THEN Strip(rc.group) ELSE ""
        r == SearchLabel(txt, <<"reasoning">>, {"recommendations:", "patch:"})
        reasoning == IF st.reasoning # "" THEN st.reasoning
                     ELSE IF r.found THEN Strip(r.group)
                     ELSE Strip(Join(st.reasoning_lines, "\n"))
        recs == IF st.recommendations # <<>> THEN st.recommendations
                ELSE IF Bullets(txt, 1) # <<>> THEN Bullets(txt, 1)
                ELSE <<"No actionable recommendations found.">>
        patch_yaml == CleanPatch(st.patch_lines \o ManifestBlocks(Fenced(txt, 1)))
    IN [ root_cause |-> root_cause,
         reasoning |-> reasoning,
         recommendations |-> recs,
         patch_yaml |-> patch_yaml,
         category |-> IF st.category # "" THEN st.category
                      ELSE GuessCategory(root_cause, reasoning) ]

\* retry_needed
RetryNeeded(f) ==
    \/ Contains(ToLower(f.root_cause), "not identified")
    \/ \E i \in DOMAIN f.recommendations :
          Contains(ToLower(f.recommendations[i]), "no actionable")

\* `fields` after the retry text was read.
AfterRetry(f, retry_txt) ==
    LET rc == SearchLabel(retry_txt, <<"root", "cause">>, {"\n"})
        recs == Bullets(retry_txt, 1)
        root_cause == IF rc.found THEN Strip(rc.group) ELSE f.root_cause
        recommendations == IF recs # <<>> THEN recs ELSE f.recommendations
    IN [f EXCEPT
          !.root_cause = IF root_cause = ""
                         THEN "Root cause could not be inferred even after retry."
                         ELSE root_cause,
          !.recommendations = IF recommendations = <<>>
                              THEN <<"Manual investigation recommended.">>
                              ELSE recommendations]

\* The final validation.
Validated(f) ==
    [f EXCEPT
       !.root_cause = IF @ = "" THEN "Root cause not identified." ELSE @,
       !.reasoning = IF @ = "" THEN "No reasoning extracted from RCA output." ELSE @]

(***************************************************************************)
(* utils/markdown_helper.py and agent.py: analyze_resource. The headings   *)
(* of the report are written without their pictographs.                    *)
(***************************************************************************)
\* "\n".join(f"- {r}" for r in recommendations)
RECURSIVE BulletList(_)
BulletList(recs) ==
    IF recs = <<>> THEN <<>> ELSE <<"- " \o Head(recs)>> \o BulletList(Tail(recs))

PatchHeading == "\n## Suggested Manifest Patch\n"

build_markdown_generic(kind, name, namespace, root_cause, reasoning, recommendations, patch_yaml, category) ==
    Join(<<"# RCA Report for " \o kind \o ": '" \o name \o "'"
             \o (IF namespace # None /\ namespace # ""
                 THEN " (Namespace: '" \o namespace \o "')" ELSE "")>>
         \o (IF category # "" THEN <<"### Category: " \o category>> ELSE <<>>)
         \o <<"\n## Root Cause\n" \o root_cause,
              "\n## Reasoning\n" \o reasoning,
              "\n## Recommendations\n" \o Join(BulletList(recommendations), "\n")>>
         \o (IF patch_yaml # "" /\ ~StartsWith(Strip(patch_yaml), "# No manifest change")
                /\ Strip(patch_yaml) # ""
             THEN <<PatchHeading \o Fence \o "yaml\n" \o Strip(patch_yaml) \o "\n" \o Fence>>
             ELSE <<>>),
         "\n")

\* The kinds analyze_resource attaches no patch sentinel to.
UnpatchedKinds == {"node", "service", "persistentvolume", "pvc"}
\* The kinds whose metrics summary is that of a pod.
PodLikeKinds == {"pod", "deployment", "replicaset", "statefulset"}

NoManifestChange == "# No manifest change required."

\* `diag` when run_rca raised: {}, whose .get() are all None.
EmptyDiag ==
    [root_cause |-> "", reasoning |-> "", recommendations |-> <<>>, patch_yaml |-> "",
     category |-> ""]

\* not any((v or "").strip() for v in data.values())
AllBlank(bundle) == \A i \in 1..4 : Strip(Values(bundle)[i]) = ""

\* Steps 5 to 7 of analyze_resource: the dict it returns for `diag`.
AnalysisResult(kind, name, namespace, sigs, diag) ==
    LET root_cause == IF Len(Strip(diag.root_cause)) < 5
                      THEN "Root cause not identifiable" ELSE Strip(diag.root_cause)
        reasoning == IF Len(Strip(diag.reasoning)) < 20
                     THEN "No sufficient diagnostic context for " \o kind \o " '" \o name
                          \o "' in namespace '" \o OrElse(namespace, "default")
                          \o "'. Detected signals: " \o sigs
                          \o ". Possible transient or resolved condition."
                     ELSE Strip(diag.reasoning)
        recommendations == IF diag.recommendations = <<>>
                           THEN <<"No specific remediation identified for " \o kind
                                  \o " '" \o name \o "'.">>
                           ELSE diag.recommendations
        given == Strip(diag.patch_yaml)
        patch_yaml == IF given = "" \/ ToLower(given) \in {"# none", "none"} \/ Len(given) < 5
                      THEN IF ToLower(kind) \in UnpatchedKinds THEN "" ELSE NoManifestChange
                      ELSE given
        category == IF Strip(diag.category) = "" THEN "General Anomaly" ELSE Strip(diag.category)
    IN [ kind |-> kind, name |-> name, namespace |-> namespace,
         root_cause |-> root_cause, reasoning |-> reasoning,
         recommendations |-> recommendations, patch_yaml |-> patch_yaml,
         category |-> category,
         markdown |-> build_markdown_generic(kind, name, namespace, root_cause, reasoning,
                                             recommendations, patch_yaml, category) ]

(***************************************************************************)
(* One call of analyze_resource, step by step, run_rca included.           *)
(***************************************************************************)
\* The texts _generate returns: the stripped text of the backend, "" for a
\* text of spaces, its error marker, its "no valid response" text.
BackendError == "[Gemini error: quota exceeded]"
NoValidResponse == "No valid Gemini response."
WellFormed ==
    "Root Cause: Container exceeds its memory limit\nRCA Category: Resource\nReasoning: The container was OOMKilled because usage grew past the limit.\nRecommendations:\n- Raise the memory limit\n- Profile the heap\nPatch:\n'''yaml\nspec:\n  containers:\n  - name: app\n    resources: {}\n'''"
RootOnly == "Root Cause: Unknown"
NetworkLabel ==
    "Root Cause: DNS lookup fails\nCategory: Network\nReasoning: Name resolution of the upstream service fails in the pod.\nRecommendations:\n- Check CoreDNS"
NotIdentified == "Root Cause: Root cause not identified.\nRecommendations:\n- Collect more logs"
SplitRoot ==
    "Findings\nroot  cause :\n  disk is full\nReasoning:\nThe node ran out of disk.\nPatch: # none"
RetryUsable == "Root Cause: Image tag does not exist\n- Fix the image tag"
PatchBullets ==
    "Root Cause: Wrong image\nCategory: infra/network\nPatch:\n'''\nspec:\n  containers:\n  - image: app:2\n'''"
InfraLabel == "Root Cause: Node is not ready\nCategory: infra\nRecommendations:\n- Restart the kubelet"
Terse == "Root Cause: OOM\nReasoning: Out of memory\n- Raise the limit"
RecsOnly == "Recommendations:\n- Restart the pod"
MixedRecs ==
    "Root Cause: Disk of the node is full\nReasoning: The kubelet reports disk pressure on the node.\nRecommendations:\n- Free disk space\n- No actionable change for the pod"

BackendTexts ==
    {"", BackendError, NoValidResponse, WellFormed, RootOnly, NetworkLabel, NotIdentified,
     SplitRoot, RetryUsable, PatchBullets, InfraLabel, Terse, RecsOnly, MixedRecs}
RootLineOnly == "Root Cause: Image tag does not exist"
RetryTexts == {"", BackendError, NoValidResponse, RetryUsable, RootLineOnly}

\* The resources analysed.
AnalyzedResources ==
    { <<"Pod", "p1", "ns1">>, <<"Node", "n1", None>>, <<"service", "svc", "default">>,
      <<"PersistentVolume", "pv1", None>>, <<"PVC", "data", "ns1">>,
      <<"Deployment", "web", "">> }

\* What the cluster gives for a resource: whether the API client exists
\* (self.v1), and for each field the text, or Unobtainable when the API call
\* raises and the kubectl command fails.
Unobtainable == "<unobtainable>"
Describes == {"", " \n", "Back-off restarting failed container", "State: Error"}
EventTexts == {"", "Warning Failed Error: ErrImagePull"}
LogTexts == {"", "OOMKilled", "critical: DNS lookup i/o timeout"}
MetricsTexts == {"", "cpu: 10m"}

\* What kubectl prints when it fails: subprocess.getoutput returns stdout and
\* stderr together.
KubectlError == "Error from server (NotFound)"

\* The sources of a kind: logs are read for a pod only, `kubectl top` is run
\* for a pod and a node only.
Sources(kind) ==
    [ api : BOOLEAN,
      describe : Describes \cup {Unobtainable},
      events : EventTexts \cup {Unobtainable},
      logs : IF ToLower(kind) = "pod" THEN LogTexts \cup {Unobtainable} ELSE {Unobtainable},
      metrics : IF ToLower(kind) \in {"pod", "node"} THEN MetricsTexts \cup {Unobtainable}
                ELSE {Unobtainable} ]

\* The sources of a cluster without API client where describe, events and
\* logs can be read.
ReadableSources(kind) ==
    { g \in Sources(kind) :
        /\ ~g.api
        /\ g.describe # Unobtainable
        /\ g.events # Unobtainable
        /\ (ToLower(kind) = "pod") => (g.logs # Unobtainable) }

\* collect_resource_data. With the API client, the kubectl command of an
\* except clause runs without `2>/dev/null`, and its error text is the
\* field; without it, the commands end with `2>/dev/null || true`. The logs
\* command has that ending on both paths. `kubectl top` ends with
\* `|| echo 'metrics unavailable'`, and the other kinds get that text.
collect_resource_data(kind, g) ==
    [ describe |-> IF g.describe # Unobtainable THEN g.describe
                   ELSE IF g.api THEN KubectlError ELSE "",
      events |-> IF g.events # Unobtainable THEN g.events
                 ELSE IF g.api THEN KubectlError ELSE "",
      logs |-> IF ToLower(kind) = "pod" /\ g.logs # Unobtainable THEN g.logs ELSE "",
      metrics |-> IF ToLower(kind) \in {"pod", "node"} /\ g.metrics # Unobtainable
                  THEN g.metrics ELSE "metrics unavailable" ]

\* summarize_pod / summarize_nodes when `kubectl top` gives nothing.
metrics_summary(kind) ==
    IF ToLower(kind) \in PodLikeKinds THEN "metrics unavailable" ELSE "No node metrics available"

\* build_prompt, and the refined prompt of the retry: the template and what
\* it is filled with.
build_prompt(template, r, d, summary, sigs) ==
    <<template, r[1], r[2], OrElse(r[3], ""), d.describe, d.events, d.logs, summary, sigs>>

NoBundle == [describe |-> "", events |-> "", logs |-> "", metrics |-> ""]
NoSources ==
    [api |-> FALSE, describe |-> Unobtainable, events |-> Unobtainable,
     logs |-> Unobtainable, metrics |-> Unobtainable]
\* `result` before analyze_resource returns a dict.
NoResult ==
    [ kind |-> "", name |-> "", namespace |-> "", root_cause |-> "", reasoning |-> "",
      recommendations |-> <<>>, patch_yaml |-> "", category |-> "", markdown |-> "" ]
NoPrompt == <<>>

\* One call of _generate: the model, the prompt, the text returned.
GenerateCall(model, p, t) == [model |-> model, prompt |-> p, returned |-> t]

\* A variant: no test for an empty bundle.
CollectAlways(d) ==
    /\ a_pc = "collect"
    /\ d = collect_resource_data(resource[1], sources)
    /\ data' = d
    /\ signals' = extract_signals(d)
    /\ a_pc' = "call"
    /\ UNCHANGED <<resource, sources, prompt, backend_calls, text, fields, result>>
    /\ UNCHANGED other_than_rca

\* collect_resource_data, the test for an empty bundle (analyze_resource
\* returns None: a_pc is "absent") and extract_signals.
Collect(d) ==
    /\ a_pc = "collect"
    /\ d = collect_resource_data(resource[1], sources)
    /\ data' = d
    /\ IF AllBlank(d)
       THEN a_pc' = "absent" /\ UNCHANGED signals
       ELSE a_pc' = "call" /\ signals' = extract_signals(d)
    /\ UNCHANGED <<resource, sources, prompt, backend_calls, text, fields, result>>
    /\ UNCHANGED other_than_rca

\* run_rca: build_prompt and the call of the primary backend.
CallPrimary(t) ==
    /\ a_pc = "call"
    /\ prompt' = build_prompt("prompt", resource, data, metrics_summary(resource[1]), signals)
    /\ backend_calls' = Append(backend_calls, GenerateCall("primary", prompt', t))
    /\ text' = t
    /\ a_pc' = IF t = "" \/ StartsWith(t, ErrorMarker) THEN "fallback" ELSE "parse"
    /\ UNCHANGED <<resource, sources, data, signals, fields, result>>
    /\ UNCHANGED other_than_rca

\* A variant: the fallback backend is given another prompt.
CallFallbackRefined(t) ==
    /\ a_pc = "fallback"
    /\ backend_calls' = Append(backend_calls,
           GenerateCall("fallback", [prompt EXCEPT ![1] = "refined"], t))
    /\ text' = t
    /\ a_pc' = "parse"
    /\ UNCHANGED <<resource, sources, data, signals, prompt, fields, result>>
    /\ UNCHANGED other_than_rca

\* run_rca: the call of the fallback backend.
CallFallback(t) ==
    /\ a_pc = "fallback"
    /\ backend_calls' = Append(backend_calls, GenerateCall("fallback", prompt, t))
    /\ text' = t
    /\ a_pc' = "parse"
    /\ UNCHANGED <<resource, sources, data, signals, prompt, fields, result>>
    /\ UNCHANGED other_than_rca

\* run_rca: steps 3 to 7, and the test of the smart retry.
Parse ==
    /\ a_pc = "parse"
    /\ fields' = ParseFields(text)
    /\ a_pc' = IF RetryNeeded(fields') THEN "retry" ELSE "validate"
    /\ UNCHANGED <<resource, sources, data, signals, prompt, backend_calls, text, result>>
    /\ UNCHANGED other_than_rca

\* run_rca: the smart retry.
Retry(t) ==
    /\ a_pc = "retry"
    /\ backend_calls' = Append(backend_calls,
           GenerateCall("fallback", [prompt EXCEPT ![1] = "refined"], t))
    /\ fields' = AfterRetry(fields, t)
    /\ a_pc' = "validate"
    /\ UNCHANGED <<resource, sources, data, signals, prompt, text, result>>
    /\ UNCHANGED other_than_rca

\* A variant: no final validation.
ValidateNothing ==
    /\ a_pc = "validate"
    /\ a_pc' = "returned"
    /\ UNCHANGED <<resource, sources, data, signals, prompt, backend_calls, text, fields, result>>
    /\ UNCHANGED other_than_rca

\* run_rca: the final validation and the return.
Validate ==
    /\ a_pc = "validate"
    /\ fields' = Validated(fields)
    /\ a_pc' = "returned"
    /\ UNCHANGED <<resource, sources, data, signals, prompt, backend_calls, text, result>>
    /\ UNCHANGED other_than_rca

\* The call of self.rca.run_rca raises an exception: the except clause of
\* analyze_resource.
ClientRaises ==
    /\ a_pc = "call"
    /\ a_pc' = "raised"
    /\ UNCHANGED <<resource, sources, data, signals, prompt, backend_calls, text, fields, result>>
    /\ UNCHANGED other_than_rca

\* The dict `diag` of analyze_resource.
Diag == IF a_pc = "raised" THEN EmptyDiag ELSE fields

\* A variant: the fields of `diag` are returned as they are.
FinishAnalysisUnchecked ==
    /\ a_pc \in {"returned", "raised"}
    /\ result' = [AnalysisResult(resource[1], resource[2], resource[3], signals, Diag)
                    EXCEPT !.root_cause = Strip(Diag.root_cause),
                           !.reasoning = Strip(Diag.reasoning),
                           !.recommendations = Diag.recommendations]
    /\ a_pc' = "done"
    /\ UNCHANGED <<resource, sources, data, signals, prompt, backend_calls, text, fields>>
    /\ UNCHANGED other_than_rca

\* analyze_resource: steps 5 to 7 and the return.
FinishAnalysis ==
    /\ a_pc \in {"returned", "raised"}
    /\ result' = AnalysisResult(resource[1], resource[2], resource[3], signals, Diag)
    /\ a_pc' = "done"
    /\ UNCHANGED <<resource, sources, data, signals, prompt, backend_calls, text, fields>>
    /\ UNCHANGED other_than_rca

\* No call of analyze_resource.
RcaOff ==
    /\ a_pc = "off"
    /\ resource = NoArgs
    /\ sources = NoSources
    /\ data = NoBundle
    /\ signals = ""
    /\ prompt = NoPrompt
    /\ backend_calls = <<>>
    /\ text = ""
    /\ fields = EmptyDiag
    /\ result = NoResult

\* analyze_resource is called for a resource of a cluster.
RcaStart ==
    /\ a_pc = "collect"
    /\ resource \in AnalyzedResources
    /\ sources \in Sources(resource[1])
    /\ data = NoBundle
    /\ signals = ""
    /\ prompt = NoPrompt
    /\ backend_calls = <<>>
    /\ text = ""
    /\ fields = EmptyDiag
    /\ result = NoResult

(***************************************************************************)
(* The patch cleanup of run_rca, applied to its own output.                *)
(***************************************************************************)
\* Lines of a patch section.
PatchVocabulary ==
    {"spec:", "  spec:", "  replicas: 2", "kind: Pod", "template: spec:", "spec: {}",
     "'''yaml", "'''", "none"}

\* The sequences of at most n lines.
PatchTexts(n) == UNION { [1..k -> PatchVocabulary] : k \in 1..n }

\* patch_lines as the parsing loop and the fenced blocks fill it: the
\* stripped lines that follow a "Patch:" header, or one stripped fenced block.
AsCaptured(lines) == [i \in DOMAIN lines |-> Strip(lines[i])]
AsBlock(lines) == <<Strip(Join(lines, "\n"))>>

\* The cleanup of patch_lines, then of its own output.
Cleanup ==
    /\ p_pc \in {"start", "once"}
    /\ cleaned' = Append(cleaned,
                         CleanPatch(IF p_pc = "start" THEN patch_lines ELSE <<cleaned[1]>>))
    /\ p_pc' = IF p_pc = "start" THEN "once" ELSE "twice"
    /\ UNCHANGED patch_lines
    /\ UNCHANGED other_than_patch

PatchOff ==
    /\ p_pc = "off"
    /\ patch_lines = <<>>
    /\ cleaned = <<>>

PatchStart ==
    /\ p_pc = "start"
    /\ patch_lines \in { AsCaptured(ls) : ls \in PatchTexts(MaxPatchLines) }
                         \cup { AsBlock(ls) : ls \in PatchTexts(MaxPatchLines) }
    /\ cleaned = <<>>

(***************************************************************************)
(* watch_agent.py: the loops of the three watchers.                        *)
(***************************************************************************)
EventBackoff == 5
PollBackoff == 10
MetricsInterval == 30
PodInterval == 20

\* time.sleep of the except clause of a watcher.
Backoff(w) == IF w = "events" THEN EventBackoff ELSE PollBackoff
\* time.sleep(interval) at the end of an iteration; the event watcher has none.
Interval(w) == IF w = "metrics" THEN MetricsInterval ELSE PodInterval

\* What the next item of the stream or of the list is: one that triggers no
\* analysis, one that does, one the loop body fails on (a missing field, a
\* unit int() does not parse), or a transport error of the stream. The
\* stream ends with its timeout_seconds, the list with its last item.
ItemKinds(w) ==
    {"quiet", "trigger", "malformed"} \cup (IF w = "events" THEN {"broken"} ELSE {})

\* What trigger_rca did: skipped the resource, saved a report, or caught an
\* exception of the analysis or of the saving. It returns in each case.
TriggerOutcomes == {"skipped", "saved", "failed"}

LoopAt(w, at, exc, secs, left) ==
    /\ loop_pc' = [loop_pc EXCEPT ![w] = at]
    /\ raised' = [raised EXCEPT ![w] = exc]
    /\ pause' = [pause EXCEPT ![w] = secs]
    /\ items_left' = [items_left EXCEPT ![w] = left]
    /\ UNCHANGED other_than_loop

\* The except clause of the loop: print, then time.sleep(backoff).
Caught(w, exc) == LoopAt(w, "backoff", exc, Backoff(w), 0)

\* A variant: an exception ends the thread.
PollUnguarded(w, ok, k) ==
    /\ loop_pc[w] = "poll"
    /\ IF ok THEN LoopAt(w, "items", "none", 0, k) ELSE LoopAt(w, "exited", "transport", 0, 0)

\* The top of `while True`: open the stream, or list the nodes or the pods;
\* k items are to come.
Poll(w, ok, k) ==
    /\ loop_pc[w] = "poll"
    /\ IF ok THEN LoopAt(w, "items", "none", 0, k) ELSE Caught(w, "transport")

\* One turn of the `for` over the items, up to the call of trigger_rca.
NextItem(w, item) ==
    /\ loop_pc[w] = "items"
    /\ items_left[w] > 0
    /\ item \in ItemKinds(w)
    /\ CASE item = "quiet" -> LoopAt(w, "items", "none", 0, items_left[w] - 1)
         [] item = "trigger" -> LoopAt(w, "trigger", "none", 0, items_left[w] - 1)
         [] item = "malformed" -> Caught(w, "item")
         [] item = "broken" -> Caught(w, "transport")

\* The `for` ends: the event watcher opens the stream again, the other two
\* sleep for their interval.
EndOfItems(w) ==
    /\ loop_pc[w] = "items"
    /\ items_left[w] = 0
    /\ IF w = "events" THEN LoopAt(w, "poll", "none", 0, 0)
       ELSE LoopAt(w, "sleep", "none", Interval(w), 0)

\* trigger_rca returns.
TriggerReturns(w, outcome) ==
    /\ loop_pc[w] = "trigger"
    /\ LoopAt(w, "items", IF outcome = "failed" THEN "rca" ELSE "none", 0, items_left[w])

\* time.sleep returns.
Wake(w) ==
    /\ loop_pc[w] \in {"sleep", "backoff"}
    /\ LoopAt(w, "poll", "none", pause[w], 0)

LoopOff ==
    /\ loop_pc = [w \in Watchers |-> "off"]
    /\ pause = [w \in Watchers |-> 0]
    /\ raised = [w \in Watchers |-> "none"]
    /\ items_left = [w \in Watchers |-> 0]

LoopStart ==
    /\ loop_pc = [w \in Watchers |-> "poll"]
    /\ pause = [w \in Watchers |-> 0]
    /\ raised = [w \in Watchers |-> "none"]
    /\ items_left = [w \in Watchers |-> 0]

(***************************************************************************)
(* agent.py: analyze_cluster.                                              *)
(***************************************************************************)
DefaultMaxWorkers == 6

\* str.lower() on the kinds a scan is asked for.
Lower(kind) ==
    CASE kind = "Pod" -> "pod"
      [] kind = "Node" -> "node"
      [] kind = "Deployment" -> "deployment"
      [] kind = "Service" -> "service"
      [] OTHER -> kind

\* analyze_cluster's default for kinds.
DefaultKinds == <<"Pod", "Node", "Deployment", "Service">>

\* list_namespaces: the namespaces left out when exclude_system is set.
SystemNamespaces == {"kube-system", "kube-public", "kube-node-lease", "monitoring"}

\* The names `kubectl get <kind> -n <ns>` lists in the clusters scanned.
World(kind_lower, ns) ==
    CASE kind_lower = "pod" /\ ns = "default" -> <<"web", "api">>
      [] kind_lower = "pod" /\ ns = "ns1" -> <<"p1">>
      [] kind_lower = "pod" /\ ns = "kube-system" -> <<"dns">>
      [] kind_lower = "deployment" /\ ns = "prod" -> <<"db">>
      [] OTHER -> <<>>

\* The nodes a cluster lists: n1, n2, ...
NodeNames(n) == [i \in 1..n |-> CASE i = 1 -> "n1" [] i = 2 -> "n2" [] OTHER -> "n3"]

\* The clusters a scan is run on, with the arguments of the scan and the
\* max_workers of the agent.
Clusters ==
    [ kinds : {DefaultKinds, <<"Node", "Pod">>},
      exclude_system : BOOLEAN,
      namespaces : { <<>>, <<"kube-system">>, <<"kube-system", "default">>,
                     <<"default", "prod">> },
      nodes : { NodeNames(n) : n \in 0..MaxNodes },
      max_workers : {1, 2, DefaultMaxWorkers} ]

NoFile == <<"<no file>">>

\* K8sHelper.list_namespaces
list_namespaces(c, exclude_system) ==
    IF exclude_system
    THEN SelectSeq(c.namespaces, LAMBDA n : n \notin SystemNamespaces)
    ELSE c.namespaces

\* K8sHelper.list_resources
list_resources(c, kind, ns) ==
    IF Lower(kind) = "node" THEN c.nodes ELSE World(Lower(kind), ns)

RECURSIVE Flatten(_)
Flatten(ss) == IF ss = <<>> THEN <<>> ELSE Head(ss) \o Flatten(Tail(ss))

\* The body of `for kind in kinds`: what one kind appends to resources.
ResourcesOfKind(c, kind, namespaces) ==
    IF Lower(kind) = "node"
    THEN LET ns == list_resources(c, "node", None)
         IN  [i \in 1..Len(ns) |-> <<"Node", ns[i], None>>]
    ELSE Flatten([j \in 1..Len(namespaces) |->
            LET names == list_resources(c, kind, namespaces[j])
            IN  [i \in 1..Len(names) |-> <<kind, names[i], namespaces[j]>>]])

\* The resources list analyze_cluster builds.
Enumerate(c, namespaces) ==
    Flatten([k \in 1..Len(c.kinds) |-> ResourcesOfKind(c, c.kinds[k], namespaces)])

Done == {"result", "absent", "raised"}

Running(ts) == {i \in DOMAIN ts : ts[i].st = "running"}

\* analyze_cluster returns "" before any task exists.
ReturnEmpty ==
    /\ scan_pc' = "returned"
    /\ final' = <<>>
    /\ UNCHANGED <<tasks, ncalls, completion, report_file, nwrites>>

\* analyze_cluster up to the creation of the tasks: the namespaces and the
\* resources are listed, "" is returned when either list is empty, else one
\* task per resource is handed to the executor.
ScanStart ==
    /\ UNCHANGED other_than_scan
    /\ scan_pc = "start"
    /\ UNCHANGED cluster
    /\ LET namespaces == list_namespaces(cluster, cluster.exclude_system) IN
       IF namespaces = <<>>
       THEN ReturnEmpty /\ UNCHANGED resources
       ELSE LET rs == Enumerate(cluster, namespaces) IN
            /\ resources' = rs
            /\ IF rs = <<>>
               THEN ReturnEmpty
               ELSE /\ tasks' = [i \in 1..Len(rs) |-> [res |-> rs[i], st |-> "queued"]]
                    /\ ncalls' = [i \in 1..Len(rs) |-> 0]
                    /\ scan_pc' = "pool"
                    /\ UNCHANGED <<completion, final, report_file, nwrites>>

\* A buggy variant: the pool runs one task more than max_workers.
StartTaskOverWidth(i) ==
    /\ UNCHANGED other_than_scan
    /\ scan_pc = "pool"
    /\ tasks[i].st = "queued"
    /\ \A j \in 1..(i - 1) : tasks[j].st # "queued"
    /\ Cardinality(Running(tasks)) <= cluster.max_workers
    /\ tasks' = [tasks EXCEPT ![i].st = "running"]
    /\ ncalls' = [ncalls EXCEPT ![i] = @ + 1]
    /\ UNCHANGED <<scan_pc, cluster, resources, completion, final, report_file, nwrites>>

\* A variant: the worker marks the resource in the cooldown map.
StartTaskGated(i) ==
    /\ last_rca_time' = Put(last_rca_time, Key(resources[i]), clock)
    /\ UNCHANGED <<clock, cache_file, rca_lock, pc, args, now, ntriggers, calls, last_pass,
                   starts, failed, loaded>>
    /\ UNCHANGED <<rca_vars, patch_vars, loop_vars>>
    /\ scan_pc = "pool"
    /\ tasks[i].st = "queued"
    /\ \A j \in 1..(i - 1) : tasks[j].st # "queued"
    /\ Cardinality(Running(tasks)) < cluster.max_workers
    /\ tasks' = [tasks EXCEPT ![i].st = "running"]
    /\ ncalls' = [ncalls EXCEPT ![i] = @ + 1]
    /\ UNCHANGED <<scan_pc, cluster, resources, completion, final, report_file, nwrites>>

\* A worker thread of ThreadPoolExecutor(max_workers) takes the next task of
\* the queue and calls analyze_resource; there are at most max_workers threads.
StartTask(i) ==
    /\ UNCHANGED other_than_scan
    /\ scan_pc = "pool"
    /\ tasks[i].st = "queued"
    /\ \A j \in 1..(i - 1) : tasks[j].st # "queued"
    /\ Cardinality(Running(tasks)) < cluster.max_workers
    /\ tasks' = [tasks EXCEPT ![i].st = "running"]
    /\ ncalls' = [ncalls EXCEPT ![i] = @ + 1]
    /\ UNCHANGED <<scan_pc, cluster, resources, completion, final, report_file, nwrites>>

\* analyze_resource returns a result, returns None or raises; the executor
\* keeps the value or the exception in the task's future.
FinishTask(i, outcome) ==
    /\ UNCHANGED other_than_scan
    /\ scan_pc = "pool"
    /\ tasks[i].st = "running"
    /\ tasks' = [tasks EXCEPT ![i].st = outcome]
    /\ completion' = Append(completion, i)
    /\ UNCHANGED <<scan_pc, cluster, resources, ncalls, final, report_file, nwrites>>

\* One part of the report: the markdown of a result, or the fragment
\* "# Analyzer error: ..." made of the exception of task i.
Part(ts, i) ==
    [type |-> IF ts[i].st = "raised" THEN "error" ELSE "report",
     task |-> i, res |-> ts[i].res]

\* report_parts: the loop over the values of asyncio.gather, which are in the
\* order of the tasks, then the markdown of each.
ReportParts(ts) ==
    LET kept == SelectSeq([i \in 1..Len(ts) |-> i], LAMBDA i : ts[i].st # "absent")
    IN  [n \in 1..Len(kept) |-> Part(ts, kept[n])]

\* A buggy variant: the parts in the order the tasks completed.
ReportPartsAsCompleted(ts) ==
    LET kept == SelectSeq(completion, LAMBDA i : ts[i].st # "absent")
    IN  [n \in 1..Len(kept) |-> Part(ts, kept[n])]

\* The end of analyze_cluster, given the parts: "" and no file when there is
\* no part, else the file is written and the joined text returned.
Finish(parts) ==
    /\ scan_pc' = "returned"
    /\ final' = parts
    /\ IF parts = <<>>
       THEN UNCHANGED <<report_file, nwrites>>
       ELSE report_file' = parts /\ nwrites' = nwrites + 1
    /\ UNCHANGED <<cluster, resources, tasks, completion, ncalls>>

\* A buggy variant: gather without return_exceptions, the first exception of
\* a task leaves analyze_cluster while its siblings run.
AggregatePropagating ==
    /\ UNCHANGED other_than_scan
    /\ scan_pc = "pool"
    /\ IF \E i \in DOMAIN tasks : tasks[i].st = "raised"
       THEN /\ scan_pc' = "raised"
            /\ UNCHANGED <<cluster, resources, tasks, completion, ncalls, final,
                           report_file, nwrites>>
       ELSE /\ \A i \in DOMAIN tasks : tasks[i].st \in Done
            /\ Finish(ReportParts(tasks))

\* A buggy variant: the parts are joined in completion order.
AggregateAsCompleted ==
    /\ UNCHANGED other_than_scan
    /\ scan_pc = "pool"
    /\ \A i \in DOMAIN tasks : tasks[i].st \in Done
    /\ Finish(ReportPartsAsCompleted(tasks))

\* A buggy variant: the file is written also when there is no part.
AggregateAlwaysWriting ==
    /\ UNCHANGED other_than_scan
    /\ scan_pc = "pool"
    /\ \A i \in DOMAIN tasks : tasks[i].st \in Done
    /\ scan_pc' = "returned"
    /\ final' = ReportParts(tasks)
    /\ report_file' = ReportParts(tasks)
    /\ nwrites' = nwrites + 1
    /\ UNCHANGED <<cluster, resources, tasks, completion, ncalls>>

\* asyncio.gather(*tasks, return_exceptions=True) returns once every task has
\* a value or an exception; the rest of analyze_cluster builds the parts,
\* writes the file when there is a part, and returns.
Aggregate ==
    /\ UNCHANGED other_than_scan
    /\ scan_pc = "pool"
    /\ \A i \in DOMAIN tasks : tasks[i].st \in Done
    /\ Finish(ReportParts(tasks))

\* No scan is running.
ScanOff ==
    /\ scan_pc = "off"
    /\ cluster = <<>>
    /\ resources = <<>>
    /\ tasks = <<>>
    /\ completion = <<>>
    /\ ncalls = <<>>
    /\ final = <<>>
    /\ report_file = NoFile
    /\ nwrites = 0

\* A scan is about to run on the cluster c.
ScanAt(c) ==
    /\ scan_pc = "start"
    /\ cluster = c
    /\ resources = <<>>
    /\ tasks = <<>>
    /\ completion = <<>>
    /\ ncalls = <<>>
    /\ final = <<>>
    /\ report_file = NoFile
    /\ nwrites = 0

\* A scan is about to run on one of the clusters; no watcher runs.
InitScan ==
    /\ InitWatch
    /\ RcaOff /\ PatchOff /\ LoopOff
    /\ cache_file = FileAbsent
    /\ scan_pc = "start"
    /\ cluster \in Clusters
    /\ resources = <<>>
    /\ tasks = <<>>
    /\ completion = <<>>
    /\ ncalls = <<>>
    /\ final = <<>>
    /\ report_file = NoFile
    /\ nwrites = 0

NextScan ==
    \/ ScanStart
    \/ \E i \in DOMAIN tasks : StartTask(i)
    \/ \E i \in DOMAIN tasks : \E outcome \in Done : FinishTask(i, outcome)
    \/ Aggregate

SpecScan == InitScan /\ [][NextScan]_vars

Init == InitWatch /\ ScanOff /\ RcaOff /\ PatchOff /\ LoopOff

\* The steps of the watcher threads in ws, and the passing of time.
WatchNext(ws) ==
    \/ Tick
    \/ \E w \in ws : \E r \in TriggerArgs(w) : Detect(w, r)
    \/ \E w \in ws : Check(w)
    \/ \E w \in ws : Mark(w)
    \/ \E w \in ws : \E ok \in BOOLEAN : Open(w, ok)
    \/ \E w \in ws : \E ok \in BOOLEAN : Write(w, ok)
    \/ \E w \in ws : Acquire(w)
    \/ \E w \in ws : \E outcome \in AnalysisOutcomes : Analyze(w, outcome)
    \/ \E w \in ws : \E saved \in BOOLEAN : Report(w, saved)

Next == WatchNext(Watchers)

Spec == Init /\ [][Next]_vars

\* One watcher thread alone.
SoloWatcher == "events"

NextSeq == WatchNext({SoloWatcher})

SpecSeq == Init /\ [][NextSeq]_vars

(***************************************************************************)
(* One call of analyze_resource.                                           *)
(***************************************************************************)
InitAnalyze ==
    /\ InitWatch /\ cache_file = FileAbsent /\ ScanOff /\ RcaStart /\ PatchOff /\ LoopOff
    /\ sources \in ReadableSources(resource[1])

NextAnalyze ==
    \/ Collect(collect_resource_data(resource[1], sources))
    \/ \E t \in BackendTexts : CallPrimary(t)
    \/ \E t \in BackendTexts : CallFallback(t)
    \/ Parse
    \/ \E t \in RetryTexts : Retry(t)
    \/ Validate
    \/ ClientRaises
    \/ FinishAnalysis

SpecAnalyze == InitAnalyze /\ [][NextAnalyze]_vars

(***************************************************************************)
(* collect_resource_data and the test for an empty bundle, for every       *)
(* outcome of the API calls and of the kubectl commands.                   *)
(***************************************************************************)
InitCollect == InitWatch /\ cache_file = FileAbsent /\ ScanOff /\ RcaStart /\ PatchOff /\ LoopOff

NextCollect == Collect(collect_resource_data(resource[1], sources))

SpecCollect == InitCollect /\ [][NextCollect]_vars

(***************************************************************************)
(* The patch cleanup, twice.                                               *)
(***************************************************************************)
InitPatch == InitWatch /\ cache_file = FileAbsent /\ ScanOff /\ RcaOff /\ PatchStart /\ LoopOff

NextPatch == Cleanup

SpecPatch == InitPatch /\ [][NextPatch]_vars

(***************************************************************************)
(* The loops of the three watcher threads. Each thread keeps running, each *)
(* call and each sleep returns.                                            *)
(***************************************************************************)
InitLoop == InitWatch /\ cache_file = FileAbsent /\ ScanOff /\ RcaOff /\ PatchOff /\ LoopStart

LoopStep(w) ==
    \/ \E ok \in BOOLEAN : \E k \in 0..MaxItems : Poll(w, ok, k)
    \/ \E item \in ItemKinds(w) : NextItem(w, item)
    \/ EndOfItems(w)
    \/ \E outcome \in TriggerOutcomes : TriggerReturns(w, outcome)
    \/ Wake(w)

NextLoop ==
    \/ \E w \in Watchers : \E ok \in BOOLEAN : \E k \in 0..MaxItems : Poll(w, ok, k)
    \/ \E w \in Watchers : \E item \in ItemKinds(w) : NextItem(w, item)
    \/ \E w \in Watchers : EndOfItems(w)
    \/ \E w \in Watchers : \E outcome \in TriggerOutcomes : TriggerReturns(w, outcome)
    \/ \E w \in Watchers : Wake(w)

SpecLoop == InitLoop /\ [][NextLoop]_vars /\ \A w \in Watchers : WF_vars(LoopStep(w))

(***************************************************************************)
(* The three watcher threads at one instant: their triggers, the cooldown  *)
(* gate and rca_lock. Each thread that can take a step takes one in the    *)
(* end, and analyze_resource and save_rca_report return or raise.          *)
(***************************************************************************)
ThreadStep(w) ==
    \/ Check(w)
    \/ Mark(w)
    \/ \E ok \in BOOLEAN : Open(w, ok)
    \/ \E ok \in BOOLEAN : Write(w, ok)
    \/ Acquire(w)
    \/ \E outcome \in AnalysisOutcomes : Analyze(w, outcome)
    \/ \E saved \in BOOLEAN : Report(w, saved)

NextLock ==
    \/ \E w \in Watchers : \E r \in TriggerArgs(w) : Detect(w, r)
    \/ \E w \in Watchers : Check(w)
    \/ \E w \in Watchers : Mark(w)
    \/ \E w \in Watchers : \E ok \in BOOLEAN : Open(w, ok)
    \/ \E w \in Watchers : \E ok \in BOOLEAN : Write(w, ok)
    \/ \E w \in Watchers : Acquire(w)
    \/ \E w \in Watchers : \E outcome \in AnalysisOutcomes : Analyze(w, outcome)
    \/ \E w \in Watchers : \E saved \in BOOLEAN : Report(w, saved)

SpecLock == Init /\ [][NextLock]_vars /\ \A w \in Watchers : WF_vars(ThreadStep(w))

(***************************************************************************)
(* A scan of the cluster while a watcher thread runs.                      *)
(***************************************************************************)
\* A cluster whose only listed resource is the pod the watchers see.
WatchedCluster ==
    [ kinds |-> <<"Pod">>, exclude_system |-> TRUE, namespaces |-> <<"ns1">>,
      nodes |-> <<>>, max_workers |-> DefaultMaxWorkers ]

InitBoth == InitWatch /\ ScanAt(WatchedCluster) /\ RcaOff /\ PatchOff /\ LoopOff

NextBoth ==
    \/ Tick
    \/ \E r \in TriggerArgs(SoloWatcher) : Detect(SoloWatcher, r)
    \/ Check(SoloWatcher)
    \/ Mark(SoloWatcher)
    \/ \E ok \in BOOLEAN : Open(SoloWatcher, ok)
    \/ \E ok \in BOOLEAN : Write(SoloWatcher, ok)
    \/ Acquire(SoloWatcher)
    \/ \E outcome \in AnalysisOutcomes : Analyze(SoloWatcher, outcome)
    \/ \E saved \in BOOLEAN : Report(SoloWatcher, saved)
    \/ ScanStart
    \/ \E i \in DOMAIN tasks : StartTask(i)
    \/ \E i \in DOMAIN tasks : \E outcome \in Done : FinishTask(i, outcome)
    \/ Aggregate

SpecBoth == InitBoth /\ [][NextBoth]_vars

(***************************************************************************)
(* The watcher regime: properties.                                         *)
(***************************************************************************)

\* In this step should_skip_rca, called by w, returns True.
ReturnsTrue(w) == pc[w] = "check" /\ pc'[w] = "idle"

\* In this step should_skip_rca, called by w, returns False.
ReturnsFalse(w) == pc[w] \in {"open", "write"} /\ pc'[w] = "lock"

\* C1: analyze_resource is never started twice for the same (kind, name,
\* namespace) within RCA_COOLDOWN seconds, whatever the interleaving of the
\* three watchers.
C1_NoRepeatedAnalysisInWindow ==
    \A r \in AllArgs : \A i, j \in DOMAIN starts[r] :
        i < j => starts[r][j] - starts[r][i] >= RCA_COOLDOWN

\* C2: for a single caller and a key that was not in the cache, a call of
\* should_skip_rca returns True only when less than RCA_COOLDOWN seconds have
\* passed since the last call that returned False (so never on the first
\* call), and returns False only on the first call or RCA_COOLDOWN seconds or
\* more after the last call that returned False.
C2_FalseThenTrueThenFalse ==
    [][\A w \in Watchers :
         LET k == Key(args[w]) IN
         k \notin DOMAIN loaded =>
            /\ ReturnsTrue(w) =>
                 last_pass[k] # NoTime /\ now[w] - last_pass[k] < RCA_COOLDOWN
            /\ ReturnsFalse(w) =>
                 last_pass[k] = NoTime \/ now[w] - last_pass[k] >= RCA_COOLDOWN]_vars

\* A fresh key was checked three times: False, True within the window, False
\* once the window had passed.
C2_Witness ==
    \E k \in Keys \ DOMAIN loaded : calls[k] = <<FALSE, TRUE, FALSE>>

\* Outside the span between the mark and the return of a call, the entry of a
\* key is the `now` of the last call that returned False for it.
C3_WindowFromLastFalse ==
    (\A w \in Watchers : pc[w] \notin {"open", "write"}) =>
        \A k \in Keys : last_pass[k] # NoTime =>
            k \in DOMAIN last_rca_time /\ last_rca_time[k] = last_pass[k]

\* A call that returns True changes neither the map nor the file; a call in
\* progress changes no entry but that of its own key; a check made
\* RCA_COOLDOWN seconds or more after the last call that returned False does
\* not skip.
C3_Frame ==
    \A w \in Watchers :
        LET k == Key(args[w]) IN
        /\ ReturnsTrue(w) =>
             last_rca_time' = last_rca_time /\ cache_file' = cache_file
        /\ (pc[w] \in {"check", "mark", "open", "write"} /\ pc'[w] # pc[w]) =>
             /\ DOMAIN last_rca_time' \ {k} = DOMAIN last_rca_time \ {k}
             /\ \A x \in DOMAIN last_rca_time \ {k} :
                    last_rca_time'[x] = last_rca_time[x]
        /\ (pc[w] = "mark" /\ pc'[w] # pc[w]) =>
             k \in DOMAIN last_rca_time' /\ last_rca_time'[k] = now[w]
        /\ (pc[w] = "check" /\ pc'[w] # pc[w] /\ last_pass[k] # NoTime
                /\ now[w] - last_pass[k] >= RCA_COOLDOWN) =>
             pc'[w] = "mark"

\* C3: a call of should_skip_rca that returns True leaves the map and the
\* file unchanged and does not refresh the timestamp: the window is measured
\* from the last call that returned False, and the first check RCA_COOLDOWN
\* seconds or more after it passes. A call that returns False changes only
\* the map entry of its own key.
C3_SkipLeavesStateUnchanged == []C3_WindowFromLastFalse /\ [][C3_Frame]_vars

\* A key was skipped after its first pass and passed again, the window
\* measured from the first pass.
C3_Witness ==
    \E k \in Keys :
        /\ Len(calls[k]) >= 3
        /\ ~calls[k][1] /\ calls[k][2] /\ ~calls[k][3]
        /\ last_pass[k] >= RCA_COOLDOWN
        /\ k \in DOMAIN last_rca_time /\ last_rca_time[k] = last_pass[k]

\* Every key whose gated analysis failed still has its entry.
C4_FailedKeepEntry == failed \subseteq DOMAIN last_rca_time

\* The end of an analysis or of the saving of its report, whatever the
\* outcome, changes neither the map nor the file; a trigger for a key whose
\* analysis failed, checked within RCA_COOLDOWN seconds of the entry, is
\* skipped and starts no analysis.
C4_Steps ==
    \A w \in Watchers :
        LET k == Key(args[w]) IN
        /\ (pc[w] \in {"analyze", "report"} /\ pc'[w] # pc[w]) =>
             /\ last_rca_time' = last_rca_time
             /\ cache_file' = cache_file
             /\ k \in DOMAIN last_rca_time'
        /\ (pc[w] = "check" /\ pc'[w] # pc[w] /\ k \in failed
                /\ k \in DOMAIN last_rca_time
                /\ now[w] - last_rca_time[k] < RCA_COOLDOWN) =>
             pc'[w] = "idle" /\ starts' = starts

\* C4: the check consumes the cooldown slot: when the gated analysis raises,
\* returns None or its report cannot be saved, the entry of the resource is
\* kept, and every further trigger_rca for it within RCA_COOLDOWN seconds of
\* the entry is skipped without calling analyze_resource.
C4_FailureConsumesSlot == []C4_FailedKeepEntry /\ [][C4_Steps]_vars

\* A trigger reaches the check for a resource whose analysis failed, within
\* the window of its entry.
C4_Witness ==
    \E w \in Watchers :
        /\ pc[w] = "check"
        /\ Key(args[w]) \in failed
        /\ CooldownActive(Key(args[w]), now[w], last_rca_time)

\* C5: at most one watcher thread is inside agent.analyze_resource, and it
\* holds rca_lock.
C5_OneAnalysisAtATime ==
    /\ Cardinality({w \in Watchers : pc[w] = "analyze"}) <= 1
    /\ \A w \in Watchers : pc[w] = "analyze" => rca_lock = w

\* One watcher analyses while another, past the gate, waits for the lock.
C5_Witness ==
    \E w1, w2 \in Watchers :
        w1 # w2 /\ pc[w1] = "analyze" /\ pc[w2] = "lock"

\* C6: a watcher holds rca_lock during its check-and-mark of the map and its
\* rewrite of the cache file, and no two watchers are rewriting the file at
\* the same time.
C6_CheckMarkSaveUnderLock ==
    /\ \A w \in Watchers :
          pc[w] \in {"check", "mark", "open", "write"} => rca_lock = w
    /\ Cardinality({w \in Watchers : pc[w] = "write"}) <= 1

(***************************************************************************)
(* The scanner regime: properties.                                         *)
(***************************************************************************)

Count(ts, st) == Cardinality({i \in DOMAIN ts : ts[i].st = st})

ErrorParts(parts) == Cardinality({n \in DOMAIN parts : parts[n].type = "error"})

\* C7: an exception of a task never leaves analyze_cluster and never stops a
\* sibling: the scan does not raise, and when it returns every task has run
\* once to its end; with N tasks of which k raised and m returned None the
\* report has N - m parts, k of them "Analyzer error" fragments, each made of
\* a task that raised.
C7_TaskErrorsAreIsolated ==
    /\ scan_pc # "raised"
    /\ scan_pc = "returned" =>
         /\ \A i \in DOMAIN tasks : tasks[i].st \in Done /\ ncalls[i] = 1
         /\ Len(final) = Len(tasks) - Count(tasks, "absent")
         /\ ErrorParts(final) = Count(tasks, "raised")
         /\ \A n \in DOMAIN final :
               final[n].type = "error" <=> tasks[final[n].task].st = "raised"

\* A scan returned whose first task raised and whose other tasks did not.
C7_Witness ==
    /\ scan_pc = "returned"
    /\ Len(tasks) >= 3
    /\ tasks[1].st = "raised"
    /\ Count(tasks, "raised") = 1
    /\ Count(tasks, "absent") = 1
    /\ Len(final) = Len(tasks) - 1

\* The place of x in the sequence s (0 when it is not there).
IndexIn(s, x) == IF \E i \in DOMAIN s : s[i] = x
                 THEN CHOOSE i \in DOMAIN s : s[i] = x
                 ELSE 0

\* Resource a comes before resource b in the enumeration: by the place of
\* the kind in kinds, then of the namespace in the listing, then of the name
\* in the listing of its kind and namespace.
EnumBefore(a, b) ==
    LET nss == list_namespaces(cluster, cluster.exclude_system)
        ka == IndexIn(cluster.kinds, a[1])
        kb == IndexIn(cluster.kinds, b[1])
        na == IndexIn(nss, a[3])
        nb == IndexIn(nss, b[3])
        ia == IndexIn(list_resources(cluster, a[1], a[3]), a[2])
        ib == IndexIn(list_resources(cluster, b[1], b[3]), b[2])
    IN  \/ ka < kb
        \/ ka = kb /\ na < nb
        \/ ka = kb /\ na = nb /\ ia < ib

\* C8: the parts of the report are in the enumeration order of their
\* resources (kinds as given, namespaces as listed, names as listed),
\* whatever the order of completion, and the report is built only when every
\* task has completed or failed.
C8_ReportInEnumerationOrder ==
    scan_pc = "returned" =>
        /\ \A i \in DOMAIN tasks : tasks[i].st \in Done
        /\ Len(completion) = Len(tasks)
        /\ \A n, m \in DOMAIN final :
              n < m => EnumBefore(final[n].res, final[m].res)

\* A scan returned a report of several parts whose tasks completed in
\* another order than they were enumerated.
C8_Witness ==
    /\ scan_pc = "returned"
    /\ Len(final) >= 3
    /\ \E n, m \in DOMAIN completion :
          /\ n < m /\ completion[n] > completion[m]
          /\ tasks[completion[n]].st # "absent"
          /\ tasks[completion[m]].st # "absent"

\* C9: with no resource, or when every task returns None, analyze_cluster
\* returns the empty report and cluster_rca_report.md is not written; the
\* file is written, once and with the report returned, exactly when there is
\* a part, that is a task that returned a result or raised.
C9_FileWrittenIffParts ==
    /\ scan_pc # "returned" => nwrites = 0 /\ report_file = NoFile
    /\ scan_pc = "returned" =>
         LET some == \E i \in DOMAIN tasks : tasks[i].st \in {"result", "raised"} IN
         /\ nwrites = (IF some THEN 1 ELSE 0)
         /\ some <=> final # <<>>
         /\ report_file = (IF some THEN final ELSE NoFile)

\* A scan of a cluster with resources returned while every task returned None.
C9_Witness ==
    /\ scan_pc = "returned"
    /\ Len(tasks) >= 2
    /\ \A i \in DOMAIN tasks : tasks[i].st = "absent"
    /\ final = <<>> /\ nwrites = 0

\* C10: never more than max_workers calls of analyze_resource run at once,
\* and each enumerated resource has one task of its own, which calls
\* analyze_resource once.
C10_PoolWidth ==
    /\ Cardinality(Running(tasks)) <= cluster.max_workers
    /\ scan_pc \in {"pool", "returned"} =>
         /\ Len(tasks) = Len(resources)
         /\ \A i \in DOMAIN tasks :
               /\ tasks[i].res = resources[i]
               /\ ncalls[i] = (IF tasks[i].st = "queued" THEN 0 ELSE 1)

\* The pool is full and a task waits in the queue.
C10_Witness ==
    /\ scan_pc = "pool"
    /\ Cardinality(Running(tasks)) = cluster.max_workers
    /\ \E i \in DOMAIN tasks : tasks[i].st = "queued"
    /\ cluster.max_workers > 1


(***************************************************************************)
(* analyze_resource and run_rca: the properties of one analysis.           *)
(***************************************************************************)

\* C11: when the four fields of the collected bundle are all empty or
\* whitespace-only, analyze_resource returns None, and no call of a backend
\* has been made.
C11_EmptyBundleIsAbsent ==
    (a_pc \notin {"off", "collect"} /\ AllBlank(data)) =>
        /\ a_pc = "absent"
        /\ result = NoResult
        /\ backend_calls = <<>>

\* A bundle with a whitespace-only field has been collected and None returned.
C11_Witness ==
    /\ a_pc = "absent"
    /\ AllBlank(data)
    /\ data.describe # ""
    /\ backend_calls = <<>>

\* C12: every result of analyze_resource that is not None has a root_cause of
\* at least 5 characters, a reasoning of at least 20 characters and at least
\* one recommendation, whatever run_rca returned; an exception of run_rca is
\* followed by the return of such a result, never by anything else.
C12_ResultIsPopulated ==
    /\ [](a_pc = "done" =>
            /\ Len(result.root_cause) >= 5
            /\ Len(result.reasoning) >= 20
            /\ Len(result.recommendations) >= 1)
    /\ [][(a_pc = "raised") => (a_pc' = "done")]_vars

\* run_rca raised, and the result carries the three defaults.
C12_Witness ==
    /\ a_pc = "done"
    /\ backend_calls = <<>>
    /\ fields = EmptyDiag
    /\ result.root_cause = "Root cause not identifiable"
    /\ Len(result.recommendations) = 1

\* run_rca returned a root cause of 3 characters, and the result replaces it.
C12_WitnessPartial ==
    /\ a_pc = "done"
    /\ Len(fields.root_cause) \in 1..4
    /\ Len(fields.reasoning) \in 1..19
    /\ result.root_cause = "Root cause not identifiable"

\* C13: run_rca returns for every text of the backends, and the Diagnosis it
\* returns has a non-empty root_cause, a non-empty reasoning and at least
\* one recommendation.
C13_DiagnosisIsPopulated ==
    /\ [](a_pc = "returned" =>
            /\ fields.root_cause # ""
            /\ fields.reasoning # ""
            /\ Len(fields.recommendations) >= 1)
    /\ [][(a_pc \in {"parse", "retry", "validate"}) => (a_pc' \in {"retry", "validate", "returned"})]_vars

\* Both backends returned the error marker or nothing, and run_rca returned.
C13_Witness ==
    /\ a_pc = "returned"
    /\ Len(backend_calls) >= 2
    /\ \A i \in 1..2 : \/ backend_calls[i].returned = ""
                       \/ StartsWith(backend_calls[i].returned, ErrorMarker)
    /\ fields.root_cause # ""

\* The text had a recommendations section only, and run_rca returned.
C13_WitnessPartial ==
    /\ a_pc = "returned"
    /\ text = RecsOnly
    /\ Len(backend_calls) = 1
    /\ fields.root_cause = "Root cause not identified."

\* The values of a patch that stand for "no patch".
PatchSentinels == {"", NoPatch, "none", NoManifestChange}

\* C14: for a resource of kind node, service, persistentvolume or pvc (in
\* any letter case) the patch of the result is empty or a sentinel, and the
\* report has no "Suggested Manifest Patch" section, whatever run_rca
\* returned.
C14_NoPatchForUnpatchedKinds ==
    (a_pc = "done" /\ ToLower(resource[1]) \in UnpatchedKinds) =>
        /\ result.patch_yaml \in PatchSentinels
        /\ ~Contains(result.markdown, "Suggested Manifest Patch")

\* The eight labels of a category.
CategoryLabels ==
    {"Infra", "Config", "Application Failure", "Network Issue", "Image Issue",
     "Resource Pressure", "Health Probe Failure", "General Anomaly"}

\* C15: the category of the Diagnosis that run_rca returns, and of the result
\* of analyze_resource, is one of the eight labels.
C15_CategoryInLabelSet ==
    /\ a_pc = "returned" => fields.category \in CategoryLabels
    /\ a_pc = "done" => result.category \in CategoryLabels

\* str.split(sep) of a non-empty string.
RECURSIVE Split(_, _)
Split(s, sep) ==
    LET n == FindFrom(s, sep, 1) IN
    IF n = 0 THEN <<s>>
    ELSE <<SubSeq(s, 1, n - 1)>> \o Split(SubSeq(s, n + Len(sep), Len(s)), sep)

\* The tags of the pattern table.
CanonicalTags == { patterns[i][2] : i \in DOMAIN patterns }

\* The tags that the string `signals` lists.
RenderedTags == IF signals = "None" THEN <<>> ELSE Split(signals, ", ")

\* C16: what extract_signals returns for a bundle is the token None (no tag),
\* or GeneralError alone, or tags of the pattern table; GeneralError never
\* stands with another tag, and the tags are listed in strictly increasing
\* order, so without duplicates.
C16_SignalsAreCanonical ==
    a_pc \notin {"off", "collect", "absent"} =>
        LET tags == RenderedTags IN
        /\ signals # ""
        /\ \/ tags = <<>>
           \/ tags = <<"GeneralError">>
           \/ \A i \in DOMAIN tags : tags[i] \in CanonicalTags \ {"GeneralError"}
        /\ \A i \in 1..(Len(tags) - 1) : StrLess(tags[i], tags[i + 1])

\* The bundle of the scenario: two tags, in sorted order.
C16_Witness ==
    /\ a_pc = "call"
    /\ data.describe = "Back-off restarting failed container"
    /\ data.logs = "OOMKilled"
    /\ signals = "CrashLoopBackOff, OOMKilled"

\* A bundle with a generic failure word and no pattern.
C16_WitnessGeneral ==
    /\ a_pc = "call"
    /\ signals = "GeneralError"

\* A bundle with no pattern and no generic failure word.
C16_WitnessNone ==
    /\ a_pc = "call"
    /\ signals = "None"

\* The text of a backend that run_rca takes for a failure of the backend.
IsFailure(t) == t = "" \/ StartsWith(t, ErrorMarker)

\* The prompt of the retry, for the prompt p of the first call.
RefinedOf(p) == [p EXCEPT ![1] = "refined"]

\* C20: the calls of the backends within one run_rca: the first call is to
\* the primary backend; the secondary backend is called with the same prompt
\* exactly when the text of the primary one is empty or starts with the
\* error marker; after these there is at most one more call, to the
\* secondary backend with the refined prompt. There are never more than
\* three calls, and never two with the refined prompt.
C20_BackendCallProtocol ==
    LET c == backend_calls
        n == Len(backend_calls)
        decided == a_pc \in {"parse", "retry", "validate", "returned", "done"}
        first == IF n >= 1 /\ IsFailure(c[1].returned) THEN 2 ELSE 1
    IN
    /\ n <= 3
    /\ ((decided /\ a_pc # "done") \/ a_pc = "fallback") =>
          /\ n >= 1
          /\ c[1].model = "primary"
          /\ c[1].prompt[1] = "prompt"
    /\ (decided /\ n >= 1) =>
          /\ n >= first
          /\ (IsFailure(c[1].returned)) <=>
                (n >= 2 /\ c[2].model = "fallback" /\ c[2].prompt = c[1].prompt)
          /\ n <= first + 1
          /\ (n = first + 1) =>
                /\ c[n].model = "fallback"
                /\ c[n].prompt = RefinedOf(c[1].prompt)
                /\ a_pc \notin {"parse", "retry"}
    /\ \A i \in 1..n : (c[i].prompt[1] = "refined") => (i = n /\ i >= 2)

\* Three calls: the primary backend failed, the secondary one answered with
\* a text that called for the retry, and run_rca returned.
C20_Witness ==
    /\ a_pc = "returned"
    /\ Len(backend_calls) = 3
    /\ IsFailure(backend_calls[1].returned)
    /\ backend_calls[2].prompt = backend_calls[1].prompt
    /\ backend_calls[3].prompt = RefinedOf(backend_calls[1].prompt)

\* The retry returned nothing usable, and run_rca returned with no other call.
C20_WitnessRetryFails ==
    /\ a_pc = "returned"
    /\ Len(backend_calls) = 2
    /\ ~IsFailure(backend_calls[1].returned)
    /\ backend_calls[2].prompt[1] = "refined"
    /\ IsFailure(backend_calls[2].returned)

(***************************************************************************)
(* The patch cleanup and the watcher loops.                                *)
(***************************************************************************)

\* C17: the patch cleanup of run_rca is idempotent: applied to its own
\* output it returns that output.
C17_CleanupIdempotent ==
    p_pc = "twice" => cleaned[2] = cleaned[1]

\* The exceptions that reach the except clause of a watcher loop.
LoopExceptions == {"transport", "item"}

\* C18, as stated for every exception, those inside trigger_rca included:
\* the watcher pauses for its backoff.
C18_EveryExceptionBacksOff ==
    \A w \in Watchers :
        raised[w] # "none" => (loop_pc[w] = "backoff" /\ pause[w] = Backoff(w))

\* C18: no watcher loop ends. An exception of the stream, of the poll or of
\* the handling of an item is followed by a pause of the fixed backoff (5 s
\* for the event watcher, 10 s for the other two), and the pause by another
\* iteration; a failure inside trigger_rca is caught there, and the watcher
\* goes on with the next item without a pause. Each watcher is at the top of
\* its loop infinitely often, as long as each call and each sleep returns.
C18_LoopsNeverEnd ==
    /\ [](\A w \in Watchers :
            /\ loop_pc[w] # "exited"
            /\ (raised[w] \in LoopExceptions) =>
                  (loop_pc[w] = "backoff" /\ pause[w] = Backoff(w))
            /\ (raised[w] = "rca") => (loop_pc[w] = "items" /\ pause[w] = 0)
            /\ (loop_pc[w] = "backoff") => (raised[w] \in LoopExceptions))
    /\ [][\A w \in Watchers : (loop_pc[w] = "backoff" /\ loop_pc'[w] # "backoff") => (loop_pc'[w] = "poll" /\ pause'[w] = Backoff(w))]_vars
    /\ \A w \in Watchers : (loop_pc[w] = "backoff") ~> (loop_pc[w] = "poll")
    /\ \A w \in Watchers : []<>(loop_pc[w] = "poll")

\* Each watcher is back at the top of its loop after the pause of its backoff.
C18_Witness ==
    \A w \in Watchers : loop_pc[w] = "poll" /\ pause[w] = Backoff(w)

\* trigger_rca failed, and the watcher is at the next item.
C18_WitnessRca ==
    \E w \in Watchers : raised[w] = "rca" /\ loop_pc[w] = "items"

(***************************************************************************)
(* A scan while a watcher runs.                                            *)
(***************************************************************************)
\* The cooldown state: the map, its file and the lock of the analyses.
cooldown_state == <<last_rca_time, cache_file, rca_lock>>

\* C19: analyze_cluster leaves the cooldown map, the cache file and rca_lock
\* as they are, and it analyses every resource it listed, once, also one
\* that is within its cooldown for the watchers.
C19_ScanBypassesCooldown ==
    /\ [][scan_vars' # scan_vars => UNCHANGED cooldown_state]_vars
    /\ [](scan_pc = "returned" =>
            /\ Len(tasks) = Len(resources)
            /\ \A i \in DOMAIN tasks : ncalls[i] = 1 /\ tasks[i].st \in Done)
    /\ [][\A i \in DOMAIN tasks : (tasks[i].st = "queued" /\ scan_pc = "pool" /\ (\A j \in 1..(i - 1) : tasks[j].st # "queued") /\ Cardinality(Running(tasks)) < cluster.max_workers) => ENABLED StartTask(i)]_vars

\* The pod p1 was marked before the scan began and less than 300 seconds
\* have passed: a watcher has been refused the analysis of p1, and the scan
\* has returned with the result of its own analysis of p1.
C19_Witness ==
    LET key == Key(<<"Pod", "p1", "ns1">>) IN
    /\ scan_pc = "returned"
    /\ key \in DOMAIN loaded
    /\ clock < RCA_COOLDOWN
    /\ CooldownActive(key, clock, last_rca_time)
    /\ \E n \in DOMAIN calls[key] : calls[key][n]
    /\ \E i \in DOMAIN tasks : Key(tasks[i].res) = key /\ tasks[i].st = "result" /\ ncalls[i] = 1

(***************************************************************************)
(* run_rca: the smart retry, the category header, the recommendations.     *)
(***************************************************************************)
\* The retry call has been made, or is the next step.
RetryIssued ==
    \/ a_pc = "retry"
    \/ \E i \in DOMAIN backend_calls : backend_calls[i].prompt[1] = "refined"

\* A recommendation that is a "no actionable" placeholder.
IsPlaceholder(rec) == Contains(ToLower(rec), "no actionable")

\* C21: the retry is issued exactly when the parsed root_cause says "not
\* identified" or every parsed recommendation is a "no actionable"
\* placeholder.
C21_RetryIffWeak ==
    a_pc \in {"retry", "validate", "returned"} =>
        LET parsed == ParseFields(text) IN
        RetryIssued <=>
            \/ Contains(ToLower(parsed.root_cause), "not identified")
            \/ \A i \in DOMAIN parsed.recommendations :
                  IsPlaceholder(parsed.recommendations[i])

\* C22: when the retry text has no "Root Cause:" line and no bullet line,
\* run_rca returns the two sentinels of the retry; when it has them, it
\* returns the root cause and the bullets of the retry text.
C22_RetryOutcome ==
    (a_pc = "returned" /\ RetryIssued) =>
        LET retry_txt == backend_calls[Len(backend_calls)].returned
            rc == SearchLabel(retry_txt, <<"root", "cause">>, {"\n"})
            recs == Bullets(retry_txt, 1)
        IN
        /\ (~rc.found /\ recs = <<>>) =>
              /\ fields.root_cause = "Root cause could not be inferred even after retry."
              /\ fields.recommendations = <<"Manual investigation recommended.">>
        /\ (rc.found /\ Strip(rc.group) # "") => fields.root_cause = Strip(rc.group)
        /\ (recs # <<>>) => fields.recommendations = recs

\* The lines of a text that are a category header.
CategoryHeaders(txt) ==
    LET lines == SplitLines(txt) IN
    { i \in DOMAIN lines :
        \/ StartsWith(ToLower(Strip(lines[i])), "rca category:")
        \/ StartsWith(ToLower(Strip(lines[i])), "category:") }

\* The label of the last category header of a text.
HeaderLabel(txt) ==
    LET lines == SplitLines(txt)
        last == CHOOSE i \in CategoryHeaders(txt) : \A j \in CategoryHeaders(txt) : j <= i
    IN Strip(AfterColon(Strip(lines[last])))

\* C23: a label of the category header that mentions network, image,
\* resource, application or probe, in any letter case and at any place of
\* the label, gives the category of that word.
C23_HeaderLabelIsMapped ==
    (a_pc \in {"retry", "validate", "returned"} /\ CategoryHeaders(text) # {}) =>
        LET label == ToLower(HeaderLabel(text)) IN
        /\ Contains(label, "network") => fields.category = "Network Issue"
        /\ (~Contains(label, "network") /\ Contains(label, "image")) =>
              fields.category = "Image Issue"
        /\ (~Contains(label, "network") /\ ~Contains(label, "image")
              /\ Contains(label, "resource")) => fields.category = "Resource Pressure"

\* The section headers of the backend text.
IsHeader(low) ==
    \E h \in {"root cause:", "rca category:", "category:", "reasoning:",
              "recommendations:", "patch:", "suggested manifest patch:"} : StartsWith(low, h)

\* The bullets of the lines that follow a "Recommendations:" header and
\* come before the next header.
RECURSIVE BulletsInState(_, _)
BulletsInState(lines, in_recs) ==
    IF lines = <<>> THEN {}
    ELSE LET line == Strip(Head(lines))
             low == ToLower(line)
         IN IF IsHeader(low)
            THEN BulletsInState(Tail(lines), StartsWith(low, "recommendations:"))
            ELSE (IF in_recs /\ StartsWith(line, "- ")
                  THEN {Strip(SubSeq(line, 3, Len(line)))} ELSE {})
                 \cup BulletsInState(Tail(lines), in_recs)

\* C24: when run_rca returns without a retry, each recommendation is a
\* bullet read after a "Recommendations:" header and before the next
\* header, or the placeholder of an empty list.
C24_RecommendationsFromTheirSection ==
    (a_pc = "returned" /\ ~RetryIssued) =>
        \A i \in DOMAIN fields.recommendations :
            \/ fields.recommendations[i] \in BulletsInState(SplitLines(text), FALSE)
            \/ fields.recommendations[i] = "No actionable recommendations found."

(***************************************************************************)
(* analyze_resource: the signals of a resource without metrics.            *)
(***************************************************************************)
\* C27: when describe, events and logs hold no pattern of the table and no
\* generic failure word, the signals that go into the prompt are None.
C27_SignalsOnlyFromObservations ==
    (a_pc \in {"fallback", "parse", "retry", "validate", "returned"}
       /\ SignalSet([data EXCEPT !.metrics = ""]) = {}) =>
        /\ signals = "None"
        /\ prompt[9] = "None"

(***************************************************************************)
(* collect_resource_data: the fields that cannot be obtained.              *)
(***************************************************************************)
\* C26: a field whose API call and kubectl command both fail is the empty
\* string in the bundle; when all four fields cannot be obtained, the bundle
\* is empty and analyze_resource returns None.
C26_UnobtainableIsEmpty ==
    (a_pc \notin {"off", "collect"}) =>
        /\ (sources.describe = Unobtainable) => (data.describe = "")
        /\ (sources.events = Unobtainable) => (data.events = "")
        /\ (sources.logs = Unobtainable) => (data.logs = "")
        /\ (sources.metrics = Unobtainable) => (data.metrics = "")
        /\ (\A fld \in {"describe", "events", "logs", "metrics"} :
                sources[fld] = Unobtainable) => (AllBlank(data) /\ a_pc = "absent")

(***************************************************************************)
(* analyze_cluster: the nodes of a cluster without namespaces.             *)
(***************************************************************************)
\* C25: when the kinds of a scan include Node, the scan creates one task per
\* node the cluster lists, whatever list_namespaces returns.
C25_NodesWithoutNamespaces ==
    (scan_pc # "start" /\ \E k \in DOMAIN cluster.kinds : Lower(cluster.kinds[k]) = "node") =>
        \A n \in DOMAIN cluster.nodes :
            \E i \in DOMAIN tasks : tasks[i].res = <<"Node", cluster.nodes[n], None>>

(***************************************************************************)
(* The watchers: the key of a resource, and rca_lock.                      *)
(***************************************************************************)
\* Two triggers for the same kind and name.
SameResource(r1, r2) == r1[1] = r2[1] /\ r1[2] = r2[2]

\* C28: the watchers key one resource alike: two analyses of one kind and
\* name that come from triggers of different watchers start 300 seconds
\* apart or more.
C28_OneKeyPerResource ==
    \A r1 \in AllArgs : \A r2 \in AllArgs \ {r1} :
        SameResource(r1, r2) =>
            \A i \in DOMAIN starts[r1] : \A j \in DOMAIN starts[r2] :
                \/ starts[r1][i] - starts[r2][j] >= RCA_COOLDOWN
                \/ starts[r2][j] - starts[r1][i] >= RCA_COOLDOWN

C29_WitnessRaised ==
    \E w \in Watchers :
        /\ failed # {}
        /\ pc[w] = "lock"
        /\ rca_lock = Free

(***************************************************************************)
(* The cache file and a restart of the process.                            *)
(***************************************************************************)
\* A save that ran to its end, over a file that no failed save left
\* unreadable: the file holds the map, and a process that starts from the
\* file skips the saved key until 300 seconds after its mark.
SaveKeepsTheMap ==
    \A w \in Watchers :
        (Write(w, TRUE) /\ cache_file.st # "garbled") =>
            /\ cache_file' = FileJson(last_rca_time')
            /\ \A t \in last_rca_time'[Key(args[w])] .. last_rca_time'[Key(args[w])] + RCA_COOLDOWN - 1 :
                  CooldownActive(Key(args[w]), t, load_cache(cache_file'))

\* A save that failed: should_skip_rca returns False all the same and the
\* mark stays in the map.
FailedSaveKeepsTheMark ==
    \A w \in Watchers :
        (Open(w, FALSE) \/ Write(w, FALSE)) =>
            /\ pc'[w] = "lock"
            /\ last_rca_time' = last_rca_time
            /\ Key(args[w]) \in DOMAIN last_rca_time'

\* C30: a save of the cache file that ends without an exception leaves in
\* the file exactly the in-memory map, so that a restarted process skips the
\* key until 300 seconds after the mark; an absent or unreadable file loads
\* as the empty map; a failed save raises nothing and keeps the mark.
C30_CooldownSurvivesRestart ==
    /\ [][SaveKeepsTheMap]_vars
    /\ [][FailedSaveKeepsTheMark]_vars
    /\ [](load_cache(FileAbsent) = EmptyMap /\ load_cache(FileGarbled) = EmptyMap /\ load_cache(FileEmpty) = EmptyMap)

====
